---- MODULE Spec2Model ----
(***************************************************************************)
(* Model of the interval analysis of range_analysis.py: the Interval       *)
(* lattice, the transfer functions of DeFiRangeAnalyzer, the worklist      *)
(* fixpoint driver _analyze_function_worklist, the constraint checker      *)
(* _check_bounds_violation and the entry point analyze().                  *)
(*                                                                         *)
(* The 256-bit machine range [-2^255, 2^256-1] of the source is modelled   *)
(* with MachineBits bits: every 2**256 of the source is 2^MachineBits and  *)
(* every 2**255 is 2^(MachineBits-1).                                      *)
(***************************************************************************)
EXTENDS Integers, Sequences, FiniteSets, TLC

\* width of the modelled machine word (256 in the source)
MachineBits == 10

UMAX == 2^MachineBits - 1
SMIN == -(2^(MachineBits - 1))
SMAX == 2^(MachineBits - 1) - 1

(***************************************************************************)
(* Bounds of an Interval.  A bound of the source is None, float('-inf'),   *)
(* float('inf') or a Python int.  Infinite bounds are integers beyond      *)
(* every finite value the model computes; None is a value of its own.      *)
(***************************************************************************)
PosInf == 2^28
NegInf == -(2^28)
None == 2^28 + 7
\* finite values saturate here in the power rule (above UMAX, below PosInf)
PowCap == 2^24

IsFinite(b) == b # None /\ b # PosInf /\ b # NegInf

\* the one element of a singleton set; {e(x) : x \in {v}} binds v as a value
The(S) == CHOOSE x \in S : TRUE

Min2(a, b) == IF a <= b THEN a ELSE b
Max2(a, b) == IF a >= b THEN a ELSE b
Abs(a) == IF a < 0 THEN -a ELSE a

RECURSIVE SeqMin(_)
SeqMin(s) == IF Len(s) = 1 THEN s[1] ELSE Min2(s[1], SeqMin(Tail(s)))
RECURSIVE SeqMax(_)
SeqMax(s) == IF Len(s) = 1 THEN s[1] ELSE Max2(s[1], SeqMax(Tail(s)))

\* Interval.__init__
Interval(lo, hi) == [min_val |-> lo, max_val |-> hi]
Bottom == Interval(None, None)
Top == Interval(NegInf, PosInf)
is_bottom(i) == i.min_val = None /\ i.max_val = None
is_top(i) == i.min_val = NegInf /\ i.max_val = PosInf

\* Interval.__eq__
IntervalEq(a, b) ==
    \/ (is_bottom(a) /\ is_bottom(b))
    \/ (is_top(a) /\ is_top(b))
    \/ (a.min_val = b.min_val /\ a.max_val = b.max_val)

\* Interval.join
join(a, b) ==
    IF is_bottom(a) THEN b
    ELSE IF is_bottom(b) THEN a
    ELSE IF is_top(a) \/ is_top(b) THEN Top
    ELSE Interval(
        IF a.min_val # None /\ b.min_val # None THEN Min2(a.min_val, b.min_val) ELSE None,
        IF a.max_val # None /\ b.max_val # None THEN Max2(a.max_val, b.max_val) ELSE None)

\* a meet without the emptiness test: crossing bounds are returned as they are
meet_unchecked(a, b) ==
    IF is_bottom(a) \/ is_bottom(b) THEN Bottom
    ELSE IF is_top(a) THEN b
    ELSE IF is_top(b) THEN a
    ELSE Interval(
        IF a.min_val # None /\ b.min_val # None THEN Max2(a.min_val, b.min_val) ELSE None,
        IF a.max_val # None /\ b.max_val # None THEN Min2(a.max_val, b.max_val) ELSE None)

\* a meet that keeps the receiver's bound where the argument's bound is absent
meet_keeping_self(a, b) ==
    IF is_bottom(a) \/ is_bottom(b) THEN Bottom
    ELSE IF is_top(a) THEN b
    ELSE IF is_top(b) THEN a
    ELSE LET new_min == IF a.min_val # None /\ b.min_val # None
                        THEN Max2(a.min_val, b.min_val) ELSE a.min_val
             new_max == IF a.max_val # None /\ b.max_val # None
                        THEN Min2(a.max_val, b.max_val) ELSE a.max_val
         IN IF new_min # None /\ new_max # None /\ new_min > new_max
            THEN Bottom
            ELSE Interval(new_min, new_max)

\* Interval.meet
meet(a, b) ==
    IF is_bottom(a) \/ is_bottom(b) THEN Bottom
    ELSE IF is_top(a) THEN b
    ELSE IF is_top(b) THEN a
    ELSE LET new_min == IF a.min_val # None /\ b.min_val # None
                        THEN Max2(a.min_val, b.min_val) ELSE None
             new_max == IF a.max_val # None /\ b.max_val # None
                        THEN Min2(a.max_val, b.max_val) ELSE None
         IN IF new_min # None /\ new_max # None /\ new_min > new_max
            THEN Bottom
            ELSE Interval(new_min, new_max)

\* Interval.widen
widen(a, b) ==
    IF is_bottom(a) THEN b
    ELSE IF is_bottom(b) THEN a
    ELSE Interval(
        IF b.min_val # None /\ a.min_val # None /\ b.min_val < a.min_val
            THEN NegInf ELSE a.min_val,
        IF b.max_val # None /\ a.max_val # None /\ b.max_val > a.max_val
            THEN PosInf ELSE a.max_val)

\* Interval.narrow
narrow(a, b) ==
    IF is_bottom(a) \/ is_bottom(b) THEN Bottom
    ELSE Interval(
        IF a.min_val = NegInf THEN b.min_val ELSE a.min_val,
        IF a.max_val = PosInf THEN b.max_val ELSE a.max_val)

\* an is_subset that tests the receiver for top before the argument
is_subset_top_last(a, b) ==
    IF is_bottom(a) THEN TRUE
    ELSE IF is_bottom(b) THEN FALSE
    ELSE IF is_top(a) THEN FALSE
    ELSE IF is_top(b) THEN TRUE
    ELSE /\ (b.min_val = None \/ (a.min_val # None /\ a.min_val >= b.min_val))
         /\ (b.max_val = None \/ (a.max_val # None /\ a.max_val <= b.max_val))

\* Interval.is_subset
is_subset(a, b) ==
    IF is_bottom(a) THEN TRUE
    ELSE IF is_bottom(b) THEN FALSE
    ELSE IF is_top(b) THEN TRUE
    ELSE IF is_top(a) THEN FALSE
    ELSE /\ (b.min_val = None \/ (a.min_val # None /\ a.min_val >= b.min_val))
         /\ (b.max_val = None \/ (a.max_val # None /\ a.max_val <= b.max_val))

(***************************************************************************)
(* Arithmetic on bounds as Python computes it on int and float('inf'):     *)
(* an infinite operand makes the result infinite.  The operands below are  *)
(* never infinities of opposite sign (a lower bound is never +inf and an   *)
(* upper bound never -inf), so no NaN arises in them.                      *)
(***************************************************************************)
ExtNeg(a) == IF a = PosInf THEN NegInf ELSE IF a = NegInf THEN PosInf ELSE -a
ExtAdd(a, b) ==
    IF a = NegInf \/ b = NegInf THEN NegInf
    ELSE IF a = PosInf \/ b = PosInf THEN PosInf
    ELSE a + b
ExtSub(a, b) == ExtAdd(a, ExtNeg(b))

\* Python's // on ints: the quotient rounded toward minus infinity
FloorDiv(a, b) ==
    LET q == Abs(a) \div Abs(b)
        exact == q * Abs(b) = Abs(a)
    IN IF (a < 0) = (b < 0) THEN q
       ELSE IF exact THEN -q ELSE -(q + 1)

\* Python's int ** int for b >= 0, e >= 0; results of PowCap or more are PowCap
RECURSIVE PowSat(_, _)
PowSat(b, e) ==
    IF e = 0 THEN 1
    ELSE IF b = 0 THEN 0
    ELSE IF b = 1 THEN 1
    ELSE IF e > 24 THEN PowCap
    ELSE LET p == PowSat(b, e - 1)
         IN IF p > PowCap \div b THEN PowCap ELSE p * b

\* an entry of self._potential_issues: the kind of the message and the
\* result variable the message names (NoVar when it names none)
NoVar == "-"
Issue(kind, var) == [kind |-> kind, var |-> var]

\* the bounds with None read as -inf / +inf (lines 839-842)
LoOf(i) == IF i.min_val # None THEN i.min_val ELSE NegInf
HiOf(i) == IF i.max_val # None THEN i.max_val ELSE PosInf

\* the trailing replacement of infinite bounds (lines 1151-1158)
Finish(new_min, new_max) ==
    Interval(IF new_min = NegInf THEN SMIN ELSE new_min,
             IF new_max = PosInf THEN UMAX ELSE new_max)

Out(i, issues) == [interval |-> i, issues |-> issues]

\* op_type == "+"
ApplyAdd(left_min, left_max, right_min, right_max) ==
    LET new_min == ExtAdd(left_min, right_min)
        new_max == ExtAdd(left_max, right_max)
    IN Finish(IF new_min = NegInf \/ new_min < SMIN THEN SMIN ELSE new_min,
              IF new_max = PosInf \/ new_max >= UMAX + 1 THEN UMAX ELSE new_max)

\* a subtraction that stops at zero: the lower bound never goes negative
ApplySubFloorZero(left_min, left_max, right_min, right_max) ==
    LET new_min == ExtSub(left_min, right_max)
        new_max == ExtSub(left_max, right_min)
    IN Finish(IF new_min = NegInf \/ new_min < 0 THEN 0 ELSE new_min,
              IF new_max = PosInf \/ new_max >= UMAX + 1 THEN UMAX
              ELSE IF new_max < 0 THEN 0 ELSE new_max)

\* op_type == "-"
ApplySub(left_min, left_max, right_min, right_max) ==
    LET new_min == ExtSub(left_min, right_max)
        new_max == ExtSub(left_max, right_min)
    IN Finish(IF new_min = NegInf \/ new_min < SMIN THEN SMIN ELSE new_min,
              IF new_max = PosInf \/ new_max >= UMAX + 1 THEN UMAX ELSE new_max)

\* op_type == "*"
ApplyMul(left_min, left_max, right_min, right_max) ==
    IF left_min = NegInf \/ right_min = NegInf \/ left_max = PosInf \/ right_max = PosInf
    THEN Interval(SMIN, UMAX)
    ELSE LET products == << left_min * right_min, left_min * right_max,
                            left_max * right_min, left_max * right_max >>
             new_min == SeqMin(products)
             new_max == SeqMax(products)
         IN Finish(IF new_min < SMIN THEN SMIN ELSE new_min,
                   IF new_max >= UMAX + 1 THEN UMAX ELSE new_max)

\* op_type == "/"
ApplyDiv(left_min, left_max, right_min, right_max) ==
    IF right_min <= 0 /\ right_max >= 0
    THEN IF ~(right_min = 0 /\ right_max = 0)
         THEN Out(Interval(SMIN, UMAX), << Issue("div_zero_risk", NoVar) >>)
         ELSE Out(Interval(SMIN, UMAX), << Issue("div_zero_error", NoVar) >>)
    ELSE IF left_min = NegInf \/ right_min = NegInf \/ left_max = PosInf \/ right_max = PosInf
    THEN IF (right_min > 0 /\ left_min >= 0) \/ (right_max < 0 /\ left_max <= 0)
         THEN Out(Interval(0, UMAX), << >>)
         ELSE IF (right_min > 0 /\ left_max <= 0) \/ (right_max < 0 /\ left_min >= 0)
         THEN Out(Interval(SMIN, 0), << >>)
         ELSE Out(Interval(SMIN, UMAX), << >>)
    ELSE LET is_divisor_positive == right_min > 0
             corners == IF is_divisor_positive
                        THEN << FloorDiv(left_min, right_min), FloorDiv(left_min, right_max),
                                FloorDiv(left_max, right_min), FloorDiv(left_max, right_max) >>
                        ELSE << FloorDiv(left_min, right_max), FloorDiv(left_min, right_min),
                                FloorDiv(left_max, right_max), FloorDiv(left_max, right_min) >>
             near == Abs(right_min) < 2 \/ Abs(right_max) < 2
             quotients == corners
                          \o (IF near /\ left_min < 0 THEN << SMIN >> ELSE << >>)
                          \o (IF near /\ left_max > 0 THEN << UMAX >> ELSE << >>)
         IN Out(Finish(Max2(SMIN, SeqMin(quotients)), Min2(UMAX, SeqMax(quotients))), << >>)

\* op_type == "%"
ApplyMod(left_min, left_max, right_min, right_max) ==
    IF right_min <= 0 /\ right_max >= 0
    THEN IF ~(right_min = 0 /\ right_max = 0)
         THEN Out(Interval(0, UMAX), << Issue("mod_zero_risk", NoVar) >>)
         ELSE Out(Interval(0, UMAX), << Issue("mod_zero_error", NoVar) >>)
    ELSE IF right_min > 0
    THEN LET m == ExtAdd(right_max, -1)
         IN IF left_min >= 0 THEN Out(Finish(0, Min2(left_max, m)), << >>)
            ELSE IF left_max < 0 THEN Out(Finish(Max2(ExtNeg(m), left_min), 0), << >>)
            ELSE Out(Finish(ExtNeg(m), m), << >>)
    ELSE LET abs_right_min == Abs(right_max)
         IN IF left_min >= 0 THEN Out(Finish(0, Min2(left_max, abs_right_min - 1)), << >>)
            ELSE IF left_max < 0
            THEN Out(Finish(Max2(-abs_right_min + 1, left_min), 0), << >>)
            ELSE Out(Finish(-abs_right_min + 1, abs_right_min - 1), << >>)

\* the values the double loop of lines 1028-1056 appends for one corner
PowerOf(l, r) ==
    IF l = NegInf \/ l = PosInf \/ r = NegInf \/ r = PosInf THEN << >>
    ELSE IF l >= 0 /\ r >= 0 THEN << PowSat(l, r) >>
    ELSE IF l > 0 /\ r < 0 THEN << IF l = 1 THEN 1 ELSE 0 >>
    ELSE IF l < 0 /\ r >= 0 /\ r % 2 = 0 THEN << PowSat(Abs(l), r) >>
    ELSE IF l < 0 /\ r >= 0 /\ r % 2 = 1 THEN << -PowSat(Abs(l), r) >>
    ELSE << >>

\* op_type == "**"
ApplyPow(left_interval, left_min, left_max, right_min, right_max) ==
    IF left_min = 0 /\ left_max = 0
    THEN IF right_min > 0 THEN Interval(0, 0)
         ELSE IF right_min = 0 /\ right_max = 0 THEN Interval(1, 1)
         ELSE Interval(0, UMAX)
    ELSE IF left_min = 1 /\ left_max = 1 THEN Interval(1, 1)
    ELSE IF right_min = 0 /\ right_max = 0 THEN Interval(1, 1)
    ELSE IF right_min = 1 /\ right_max = 1 THEN left_interval
    ELSE LET powers == PowerOf(left_min, right_min) \o PowerOf(left_min, right_max)
                       \o PowerOf(left_max, right_min) \o PowerOf(left_max, right_max)
         IN IF powers = << >> THEN Interval(SMIN, UMAX)
            ELSE Finish(Max2(SMIN, SeqMin(powers)), Min2(UMAX, SeqMax(powers)))

Comparisons == {"<", "<=", ">", ">=", "==", "!="}
Connectives == {"&&", "||", "and", "or"}
\* the shift rules (lines 1074-1146) are not modelled: no instruction of the
\* modelled programs shifts
Shifts == {"<<", ">>"}

\* DeFiRangeAnalyzer._apply_binary_operation: the result interval and the
\* issues it appends to self._potential_issues
apply_binary_operation(op_type, left_interval, right_interval) ==
    IF is_bottom(left_interval) \/ is_bottom(right_interval) THEN Out(Bottom, << >>)
    ELSE IF is_top(left_interval) \/ is_top(right_interval)
    THEN IF op_type \in {"/", "%"} /\ is_top(right_interval)
         THEN Out(Interval(0, UMAX), << >>)
         ELSE Out(Top, << >>)
    ELSE LET left_min == LoOf(left_interval)
             left_max == HiOf(left_interval)
             right_min == LoOf(right_interval)
             right_max == HiOf(right_interval)
         IN CASE op_type = "+" -> Out(ApplyAdd(left_min, left_max, right_min, right_max), << >>)
              [] op_type = "-" -> Out(ApplySub(left_min, left_max, right_min, right_max), << >>)
              [] op_type = "*" -> Out(ApplyMul(left_min, left_max, right_min, right_max), << >>)
              [] op_type = "/" -> ApplyDiv(left_min, left_max, right_min, right_max)
              [] op_type = "%" -> ApplyMod(left_min, left_max, right_min, right_max)
              [] op_type = "**" ->
                    Out(ApplyPow(left_interval, left_min, left_max, right_min, right_max), << >>)
              [] op_type \in Comparisons -> Out(Interval(0, 1), << >>)
              [] op_type \in Connectives -> Out(Interval(0, 1), << >>)
              \* an operator the rule does not know (lines 1147-1149)
              [] op_type \notin Shifts -> Out(Interval(SMIN, UMAX), << >>)


(***************************************************************************)
(* Variables of the analysed program.  A variable is its name; its         *)
(* declared type, its IR class and the keywords its lower-cased name       *)
(* contains are attributes of the name.                                    *)
(***************************************************************************)
UintVars == {"balance", "amount", "x", "n", "total", "leverage_ratio", "TMP_0", "TMP_1",
             "small"}
IntVars == {"delta", "y", "tiny"}
BoolVars == {"flag", "TMP_2"}
AllVars == UintVars \cup IntVars \cup BoolVars

\* isinstance(var, StateVariable) / TemporaryVariable / LocalVariable
StateVars == {"total"}
TempVars == {"TMP_0", "TMP_1", "TMP_2"}
LocalVars == AllVars \ (StateVars \cup TempVars)

\* "uint" in str(variable.type).lower() / "int" in ...
IsUintType(v) == v \in UintVars
IsIntType(v) == v \in IntVars

\* the width of the narrow integer types, those of small and tiny, as
\* uint8 / int8 are to the 256 bits of the machine word
NarrowBits == 4
\* int(re.search(r"uint(\d+)", type_str).group(1)), 256 without a match;
\* small and tiny occur as conversion targets only
TypeBits(v) == IF v \in {"small", "tiny"} THEN NarrowBits ELSE MachineBits

\* the keywords of _is_deFi_critical and of the constraint table that occur
\* in str(variable).lower()
NameKeywords(v) ==
    CASE v = "balance" -> {"balance"}
      [] v = "amount" -> {"amount"}
      [] v = "leverage_ratio" -> {"leverage_ratio", "leverage", "ratio"}
      [] OTHER -> {}

\* DeFiRangeAnalyzer._is_deFi_critical
is_deFi_critical(v) ==
    \/ NameKeywords(v) \cap {"balance", "amount", "leverage", "ratio"} # {}
    \/ IsUintType(v) \/ IsIntType(v)

(***************************************************************************)
(* The analyzer's mutable state while instructions run: _tracked_vars as   *)
(* the mapping tv with its insertion order keys (a Python dict iterates    *)
(* in insertion order), _potential_issues and _safemath_processed.         *)
(***************************************************************************)
AState(tv, keys, issues, sm) == [tv |-> tv, keys |-> keys, issues |-> issues, sm |-> sm]

\* a store that keeps no entry but the one it writes
SetVarAlone(st, var, i) == [st EXCEPT !.tv = (var :> i), !.keys = << var >>]

\* self._tracked_vars[var] = i
SetVar(st, var, i) ==
    IF var \in DOMAIN st.tv
    THEN [st EXCEPT !.tv = [st.tv EXCEPT ![var] = i]]
    ELSE [st EXCEPT !.tv = (var :> i) @@ st.tv, !.keys = Append(st.keys, var)]

\* IR operands: a variable or a Constant with an int value
VarOp(v) == [const |-> FALSE, var |-> v, value |-> 0]
ConstOp(c) == [const |-> TRUE, var |-> NoVar, value |-> c]

\* the operand's interval in _handle_binary_op (lines 768-795)
OperandInterval(st, o) ==
    IF o.const THEN Interval(o.value, o.value)
    ELSE IF o.var \in DOMAIN st.tv THEN st.tv[o.var] ELSE Bottom

\* Python's left * right on two upper bounds, compared with >= 2**256:
\* inf * 0 is NaN and compares false
MulReaches(a, b) ==
    IF a = PosInf \/ b = PosInf
    THEN (a = PosInf /\ b > 0) \/ (b = PosInf /\ a > 0)
    ELSE a * b >= UMAX + 1

\* DeFiRangeAnalyzer._check_overflow_underflow: the issues it appends
check_overflow_underflow(sm, op_type, left_interval, right_interval, result_var) ==
    IF result_var \in sm THEN << >>
    ELSE CASE op_type = "+" ->
                IF /\ left_interval.max_val # None /\ right_interval.max_val # None
                   /\ ExtAdd(left_interval.max_val, right_interval.max_val) >= UMAX + 1
                THEN << Issue("add_overflow", result_var) >> ELSE << >>
           [] op_type = "-" ->
                IF /\ left_interval.min_val # None /\ right_interval.max_val # None
                   /\ left_interval.min_val < right_interval.max_val
                   /\ IsUintType(result_var)
                THEN << Issue("sub_underflow", result_var) >> ELSE << >>
           [] op_type = "*" ->
                IF /\ left_interval.max_val # None /\ right_interval.max_val # None
                   /\ MulReaches(left_interval.max_val, right_interval.max_val)
                THEN << Issue("mul_overflow", result_var) >> ELSE << >>
           [] op_type = "**" ->
                IF /\ left_interval.max_val # None /\ right_interval.max_val # None
                   /\ left_interval.max_val > 1 /\ right_interval.max_val > 1
                   /\ right_interval.max_val > 32
                THEN << Issue("pow_overflow", result_var) >> ELSE << >>
           [] OTHER -> << >>

\* DeFiRangeAnalyzer._check_division_by_zero: the issues it appends
check_division_by_zero(right_interval, result_var) ==
    IF /\ right_interval.min_val # None /\ right_interval.max_val # None
       /\ right_interval.min_val <= 0 /\ right_interval.max_val >= 0
    THEN << Issue("div_zero_potential", result_var) >> ELSE << >>

\* IR instructions
Binary(lvalue, left, op, right) ==
    [kind |-> "Binary", lvalue |-> lvalue, left |-> left, op |-> op, right |-> right]
Assignment(lvalue, rvalue) ==
    [kind |-> "Assignment", lvalue |-> lvalue, left |-> rvalue, op |-> "", right |-> rvalue]
\* a call of <contract>.<op>(left, right); op is ir.function.name.lower()
SolidityCall(lvalue, contract, op, left, right) ==
    [kind |-> "SolidityCall", lvalue |-> lvalue, left |-> left, op |-> op, right |-> right,
     contract |-> contract]

\* the tail of _handle_binary_op (lines 797-808): the result is stored and the
\* overflow / division checks run on the operand intervals
StoreBinary(st, ir, left_interval, right_interval, r) ==
    LET st1 == SetVar([st EXCEPT !.issues = st.issues \o r.issues], ir.lvalue, r.interval)
        more == IF ir.op \in {"+", "-", "*", "**"}
                THEN check_overflow_underflow(st.sm, ir.op, left_interval, right_interval,
                                              ir.lvalue)
                ELSE IF ir.op \in {"/", "%"}
                THEN check_division_by_zero(right_interval, ir.lvalue)
                ELSE << >>
    IN [st1 EXCEPT !.issues = st1.issues \o more]

\* DeFiRangeAnalyzer._handle_binary_op
handle_binary_op(st, ir) ==
    The({The({StoreBinary(st, ir, left_interval, right_interval, r) :
                 r \in {apply_binary_operation(ir.op, left_interval, right_interval)}}) :
            left_interval \in {OperandInterval(st, ir.left)},
            right_interval \in {OperandInterval(st, ir.right)}})

\* DeFiRangeAnalyzer._handle_assignment (the rvalue types of the model are
\* integers: a constant int or a variable of type uint/int/bool)
handle_assignment(st, ir) ==
    IF ir.left.const THEN SetVar(st, ir.lvalue, Interval(ir.left.value, ir.left.value))
    ELSE IF ir.left.var \in DOMAIN st.tv THEN SetVar(st, ir.lvalue, st.tv[ir.left.var])
    ELSE IF ir.left.var \in BoolVars THEN SetVar(st, ir.lvalue, Interval(0, 1))
    ELSE st

\* lvalue = type(variable)
TypeConversion(lvalue, variable) ==
    [kind |-> "TypeConversion", lvalue |-> lvalue, left |-> variable, op |-> "",
     right |-> variable]

\* DeFiRangeAnalyzer._handle_type_conversion (no variable of the model has
\* an address type)
handle_type_conversion(st, ir) ==
    IF ir.left.const \/ ir.left.var \notin DOMAIN st.tv THEN st
    ELSE LET current_interval == st.tv[ir.left.var]
             target == ir.lvalue
             bits == TypeBits(target)
         IN IF IsUintType(target)
            THEN SetVar(st, target,
                    Interval(IF current_interval.min_val # None
                             THEN Max2(0, current_interval.min_val) ELSE 0,
                             IF current_interval.max_val # None
                             THEN Min2(2^bits - 1, current_interval.max_val)
                             ELSE 2^bits - 1))
            ELSE IF IsIntType(target)
            THEN SetVar(st, target,
                    Interval(IF current_interval.min_val # None
                             THEN Max2(-(2^(bits - 1)), current_interval.min_val)
                             ELSE -(2^(bits - 1)),
                             IF current_interval.max_val # None
                             THEN Min2(2^(bits - 1) - 1, current_interval.max_val)
                             ELSE 2^(bits - 1) - 1))
            ELSE IF target \in BoolVars
            THEN SetVar(st, target,
                    IF current_interval.min_val # None /\ current_interval.min_val > 0
                    THEN Interval(1, 1)
                    ELSE IF current_interval.max_val # None /\ current_interval.max_val <= 0
                    THEN Interval(0, 0)
                    ELSE Interval(0, 1))
            ELSE st

\* lvalue = left.right, the operands by str(...).lower()
Member(lvalue, left, right) ==
    [kind |-> "Member", lvalue |-> lvalue, left |-> VarOp(left), op |-> "",
     right |-> VarOp(right)]

\* the upper limits _handle_member gives block.timestamp, block.number and
\* tx.gasprice (4102444800, 2**64 - 1, 10**18), scaled in the same order
\* below the machine ceiling
TimestampMax == 8
BlockNumberMax == 255
GasPriceMax == 128

\* DeFiRangeAnalyzer._handle_member
handle_member(st, ir) ==
    LET left == ir.left.var
        right == ir.right.var
    IN IF left = "msg" /\ right = "value" THEN SetVar(st, ir.lvalue, Interval(0, UMAX))
       ELSE IF left = "block" /\ right = "timestamp"
       THEN SetVar(st, ir.lvalue, Interval(0, TimestampMax))
       ELSE IF left = "block" /\ right = "number"
       THEN SetVar(st, ir.lvalue, Interval(0, BlockNumberMax))
       ELSE IF left = "tx" /\ right = "gasprice"
       THEN SetVar(st, ir.lvalue, Interval(0, GasPriceMax))
       ELSE IF right = "balance" THEN SetVar(st, ir.lvalue, Interval(0, UMAX))
       ELSE st

\* "safemath" in contract_name or "math" in contract_name
IsMathContract(contract) == contract \in {"SafeMath", "Math"}

\* DeFiRangeAnalyzer._handle_solidity_call for add/sub/mul/div/mod
handle_solidity_call(st, ir) ==
    IF ir.op \notin {"add", "sub", "mul", "div", "mod"} THEN st
    ELSE IF \E o \in {ir.left, ir.right} : ~o.const /\ o.var \notin DOMAIN st.tv THEN st
    ELSE The({LET st1 == SetVar([st EXCEPT !.issues = st.issues \o r.issues],
                                ir.lvalue, r.interval)
              IN IF IsMathContract(ir.contract)
                 THEN [st1 EXCEPT !.sm = st1.sm \cup {ir.lvalue}]
                 ELSE st1 :
              r \in {apply_binary_operation(ir.op, OperandInterval(st, ir.left),
                                            OperandInterval(st, ir.right))}})

\* DeFiRangeAnalyzer._process_ir
process_ir(st, ir) ==
    CASE ir.kind = "Binary" -> handle_binary_op(st, ir)
      [] ir.kind = "Assignment" -> handle_assignment(st, ir)
      [] ir.kind = "TypeConversion" -> handle_type_conversion(st, ir)
      [] ir.kind = "Member" -> handle_member(st, ir)
      [] ir.kind = "SolidityCall" -> handle_solidity_call(st, ir)
      [] OTHER -> st

\* for ir in node.irs: self._process_ir(ir); the state after each instruction
\* is bound as a value before the next instruction reads it
RECURSIVE process_irs(_, _)
process_irs(st, irs) ==
    IF irs = << >> THEN st
    ELSE The({process_irs(next, Tail(irs)) : next \in {process_ir(st, Head(irs))}})


(***************************************************************************)
(* Condition refinement.  A node's branch condition is `left op right`     *)
(* with left a variable and right a Constant or a variable; NoCond is a    *)
(* node whose expression is no Binary.                                     *)
(***************************************************************************)
NoCond == [left |-> NoVar, op |-> "", right |-> ConstOp(0)]
Cond(left, op, right) == [left |-> left, op |-> op, right |-> right]

\* the `!=` branch of _process_condition for threshold 0 (lines 1451-1471)
SplitNonZero(current) ==
    IF /\ current.min_val # None /\ current.min_val <= 0
       /\ current.max_val # None /\ current.max_val >= 0
    THEN IF current.min_val < 0 /\ current.max_val > 0
         THEN Interval(current.min_val, current.max_val)
         ELSE IF current.min_val < 0 THEN Interval(current.min_val, -1)
         ELSE IF current.max_val > 0 THEN Interval(1, current.max_val)
         ELSE Bottom
    ELSE current

\* _process_condition, right operand a Constant (lines 1416-1480)
RefineConst(st, left, op, threshold) ==
    IF left \notin DOMAIN st.tv \/ op \notin {"<", "<=", ">", ">=", "==", "!="} THEN st
    ELSE LET current == st.tv[left]
             new_interval ==
                CASE op = "<" -> meet(current, Interval(None, threshold - 1))
                  [] op = "<=" -> meet(current, Interval(None, threshold))
                  [] op = ">" -> meet(current, Interval(threshold + 1, None))
                  [] op = ">=" -> meet(current, Interval(threshold, None))
                  [] op = "==" -> meet(current, Interval(threshold, threshold))
                  [] OTHER -> IF threshold = 0 THEN SplitNonZero(current) ELSE current
         IN IF ~IntervalEq(new_interval, current) THEN SetVar(st, left, new_interval) ELSE st

\* _process_condition, both operands tracked variables (lines 1483-1531)
RefineVars(st, left, op, right) ==
    IF left \notin DOMAIN st.tv \/ right \notin DOMAIN st.tv THEN st
    ELSE LET left_interval == st.tv[left]
             right_interval == st.tv[right]
             lmin == left_interval.min_val
             lmax == left_interval.max_val
             rmin == right_interval.min_val
             rmax == right_interval.max_val
             \* the update of left when its guard holds, then the update of right
             Both(gl, nl, gr, nr) ==
                LET s1 == IF gl THEN SetVar(st, left, nl) ELSE st
                IN IF gr THEN SetVar(s1, right, nr) ELSE s1
         IN CASE op = "<" ->
                   Both(rmax # None, meet(left_interval, Interval(None, ExtAdd(rmax, -1))),
                        lmin # None, meet(right_interval, Interval(ExtAdd(lmin, 1), None)))
              [] op = "<=" ->
                   Both(rmax # None, meet(left_interval, Interval(None, rmax)),
                        lmin # None, meet(right_interval, Interval(lmin, None)))
              [] op = ">" ->
                   Both(rmin # None, meet(left_interval, Interval(ExtAdd(rmin, 1), None)),
                        lmax # None, meet(right_interval, Interval(None, ExtAdd(lmax, -1))))
              [] op = ">=" ->
                   Both(rmin # None, meet(left_interval, Interval(rmin, None)),
                        lmax # None, meet(right_interval, Interval(None, lmax)))
              [] op = "==" ->
                   Both(TRUE, meet(left_interval, right_interval),
                        TRUE, meet(left_interval, right_interval))
              [] OTHER -> st

\* DeFiRangeAnalyzer._process_condition
process_condition(st, cond) ==
    IF cond = NoCond THEN st
    ELSE IF cond.right.const THEN RefineConst(st, cond.left, cond.op, cond.right.value)
    ELSE RefineVars(st, cond.left, cond.op, cond.right.var)

\* DeFiRangeAnalyzer._state_changed(old_state) on the current mapping tv: two
\* bounds differ by more than the threshold 0.01 exactly when they are not
\* the same integer or the same infinity
state_changed(old_state, tv) ==
    \E var \in DOMAIN tv :
        \/ var \notin DOMAIN old_state
        \/ /\ var \in DOMAIN old_state
           /\ LET old_interval == old_state[var]
                  new_interval == tv[var]
              IN \/ is_bottom(old_interval) # is_bottom(new_interval)
                 \/ is_top(old_interval) # is_top(new_interval)
                 \/ /\ old_interval.min_val # None /\ new_interval.min_val # None
                    /\ old_interval.min_val # new_interval.min_val
                 \/ /\ old_interval.max_val # None /\ new_interval.max_val # None
                    /\ old_interval.max_val # new_interval.max_val
                 \/ (old_interval.min_val = None) # (new_interval.min_val = None)
                 \/ (old_interval.max_val = None) # (new_interval.max_val = None)

(***************************************************************************)
(* The analysed program: contract.functions is a sequence of functions, a  *)
(* function has parameters, returns and nodes (function.nodes, in CFG      *)
(* declaration order); a node has its instructions, its successors (by     *)
(* position in function.nodes) and its branch condition.                   *)
(***************************************************************************)
Node(irs, sons) == [irs |-> irs, sons |-> sons, is_if |-> FALSE, cond |-> NoCond]
IfNode(cond, irs, sons) == [irs |-> irs, sons |-> sons, is_if |-> TRUE, cond |-> cond]
\* malformed: reading the CFG data of the function raises
Function(name, parameters, returns, nodes) ==
    [name |-> name, parameters |-> parameters, returns |-> returns, nodes |-> nodes,
     malformed |-> FALSE]
Malformed(name) ==
    [name |-> name, parameters |-> << >>, returns |-> << >>, nodes |-> << >>,
     malformed |-> TRUE]

\* analysis parameters of DeFiRangeAnalyzer.__init__
widening_threshold == 3
narrowing_iterations == 2
max_iterations == 20
worklist_batch_size == 5

\* the initial interval of a critical parameter or local by declared type
\* (lines 1244-1259, 1298-1309)
TypeInterval(v) ==
    IF IsUintType(v) THEN Interval(0, UMAX)
    ELSE IF IsIntType(v) THEN Interval(SMIN, SMAX)
    ELSE IF v \in BoolVars THEN Interval(0, 1)
    ELSE Interval(0, UMAX)

RECURSIVE SeedSeq(_, _)
\* seeds the critical variables of vs that are not tracked yet, in order
SeedSeq(st, vs) ==
    IF vs = << >> THEN st
    ELSE LET v == Head(vs)
         IN SeedSeq(IF is_deFi_critical(v) /\ v \notin DOMAIN st.tv
                    THEN SetVar(st, v, TypeInterval(v)) ELSE st,
                    Tail(vs))

RECURSIVE SeedParams(_, _)
\* for param in function.parameters (lines 1241-1259): assigns, does not skip
SeedParams(st, ps) ==
    IF ps = << >> THEN st
    ELSE SeedParams(IF is_deFi_critical(Head(ps))
                    THEN SetVar(st, Head(ps), TypeInterval(Head(ps))) ELSE st,
                    Tail(ps))

\* the positions << node, instruction >> of the function's instructions, and
\* their order in `for node in function.nodes: for ir in node.irs`
IrPositions(fn) == UNION {{<< n, i >> : i \in DOMAIN fn.nodes[n].irs} : n \in DOMAIN fn.nodes}
Before(p, q) == p[1] < q[1] \/ (p[1] = q[1] /\ p[2] < q[2])

\* the assignments whose rvalue is the variable v
RvalueUses(fn, v) ==
    {p \in IrPositions(fn) :
        LET ir == fn.nodes[p[1]].irs[p[2]]
        IN ir.kind = "Assignment" /\ ~ir.left.const /\ ir.left.var = v}

\* the variables the rvalue pass seeds (lines 1283-1292): untracked critical
\* state variables of an integer type that some assignment reads
SeededRvalues(st, fn) ==
    {v \in StateVars : /\ v \notin DOMAIN st.tv
                       /\ is_deFi_critical(v)
                       /\ IsUintType(v) \/ IsIntType(v)
                       /\ RvalueUses(fn, v) # {}}

RECURSIVE SeedRvalues(_, _, _)
\* the rvalue pass seeds the variables vs in the order of their first use
SeedRvalues(st, fn, vs) ==
    IF vs = {} THEN st
    ELSE LET first(v) == CHOOSE p \in RvalueUses(fn, v) :
                            \A q \in RvalueUses(fn, v) : p = q \/ Before(p, q)
             v == CHOOSE u \in vs : \A w \in vs : u = w \/ Before(first(u), first(w))
         IN SeedRvalues(SetVar(st, v, TypeInterval(v)), fn, vs \ {v})

\* local_vars.union(temp_vars): the lvalues that are locals or temporaries
LocalAndTempLvalues(fn) ==
    UNION {{fn.nodes[n].irs[i].lvalue : i \in DOMAIN fn.nodes[n].irs} : n \in DOMAIN fn.nodes}
    \cap (LocalVars \cup TempVars)

\* the orders in which Python may iterate a set of objects hashed by address
Orders(S) == {o \in [1..Cardinality(S) -> S] : \A v \in S : \E i \in DOMAIN o : o[i] = v}

\* the initialisation of _analyze_function_worklist (lines 1238-1309); order is
\* the iteration order of local_vars.union(temp_vars)
InitialState(st, fn, order) ==
    LET seeded == SeedParams([st EXCEPT !.tv = << >>, !.keys = << >>], fn.parameters)
    IN SeedSeq(SeedRvalues(seeded, fn, SeededRvalues(seeded, fn)), order)

\* a driver that puts the successors at the head of the queue
AppendSonsInFront(wl, sons, done) ==
    SelectSeq(sons, LAMBDA son : son \notin done \/ \E i \in DOMAIN wl : wl[i] = son) \o wl

RECURSIVE AppendSons(_, _, _)
\* for son in node.sons: if son not in processed or son in worklist: append
AppendSons(wl, sons, done) ==
    IF sons = << >> THEN wl
    ELSE LET son == Head(sons)
             queued == \E i \in DOMAIN wl : wl[i] = son
         IN AppendSons(IF son \notin done \/ queued THEN Append(wl, son) ELSE wl,
                       Tail(sons), done)

\* a visit that runs the instructions but keeps the branch refinement out of
\* the shared state
VisitNodeUnrefined(st, nd, old_state, visits) == process_irs(st, nd.irs)

\* one visit of a node in the main loop (lines 1326-1351): the state after
\* the condition, the instructions and the widening
VisitNode(st, nd, old_state, visits) ==
    LET should_widen == visits >= widening_threshold
    IN The({IF should_widen
            THEN [st2 EXCEPT !.tv = [v \in DOMAIN st2.tv |->
                                         IF v \in DOMAIN old_state
                                         THEN widen(old_state[v], st2.tv[v])
                                         ELSE st2.tv[v]]]
            ELSE st2 :
            st2 \in {process_irs(st1, nd.irs) :
                        st1 \in {IF nd.is_if THEN process_condition(st, nd.cond) ELSE st}}})

\* one replay of a node in the narrowing phase (lines 1378-1393)
ReplayNode(st, nd, old_state) ==
    The({[st2 EXCEPT !.tv = [v \in DOMAIN st2.tv |->
                                IF v \in DOMAIN old_state
                                THEN narrow(st2.tv[v], old_state[v])
                                ELSE st2.tv[v]]] :
         st2 \in {process_irs(st1, nd.irs) :
                     st1 \in {IF nd.is_if THEN process_condition(st, nd.cond) ELSE st}}})


(***************************************************************************)
(* The constraint checker.                                                 *)
(***************************************************************************)
\* DeFiRangeAnalyzer._load_deFi_constraints, in dict order.  The entries
\* whose keyword occurs in no variable name of the model (price_oracle, fee,
\* time_lock, slippage, apy, interest_rate, collateral_ratio) never apply
\* and are left out.
LeverageMin == 1
LeverageMax == 100
deFi_constraints ==
    << [name |-> "token_balance", min |-> 0, max |-> UMAX],
       [name |-> "leverage_ratio", min |-> LeverageMin, max |-> LeverageMax],
       [name |-> "liquidity", min |-> 0, max |-> UMAX] >>

RECURSIVE CheckConstraints(_, _, _)
\* the loop over self._deFi_constraints.items() (lines 1566-1573)
CheckConstraints(current, variable, cs) ==
    IF cs = << >> THEN "none"
    ELSE LET constraint == Head(cs)
         IN IF constraint.name \in NameKeywords(variable)
            THEN IF current.min_val # None /\ current.min_val < constraint.min
                 THEN "min_violation"
                 ELSE IF current.max_val # None /\ current.max_val > constraint.max
                 THEN "max_violation"
                 ELSE CheckConstraints(current, variable, Tail(cs))
            ELSE CheckConstraints(current, variable, Tail(cs))

\* DeFiRangeAnalyzer._check_bounds_violation: the kind of the violation
\* message, "none" for a return of None
check_bounds_violation(tv, variable) ==
    IF variable \notin DOMAIN tv THEN "none"
    ELSE LET current == tv[variable]
         IN IF is_bottom(current) THEN "none"
            ELSE IF current.max_val # None /\ current.max_val >= UMAX + 1 THEN "overflow"
            ELSE IF current.min_val # None /\ current.min_val < 0 /\ IsUintType(variable)
            THEN "underflow"
            ELSE CheckConstraints(current, variable, deFi_constraints)

\* an entry of the result list of analyze(): a violation of a variable
ViolationEntry(function, variable, violation, interval) ==
    [entry |-> "violation", function |-> function, variable |-> variable,
     violation |-> violation, interval |-> interval]
\* an entry of the result list of analyze(): a potential issue
IssueEntry(issue) ==
    [entry |-> "issue", function |-> NoVar, variable |-> issue.var,
     violation |-> issue.kind, interval |-> Bottom]

RECURSIVE CollectViolations(_, _, _)
\* for var in self._tracked_vars: ... results.append(...) (lines 1604-1613)
CollectViolations(tv, keys, fname) ==
    IF keys = << >> THEN << >>
    ELSE LET var == Head(keys)
             violation == check_bounds_violation(tv, var)
         IN (IF violation # "none"
             THEN << ViolationEntry(fname, var, violation, tv[var]) >> ELSE << >>)
            \o CollectViolations(tv, Tail(keys), fname)


(***************************************************************************)
(* State of analyze() on one DeFiRangeAnalyzer.                            *)
(***************************************************************************)
VARIABLES
    plan,                \* the programs to analyse, each on a fresh analyzer; the head is running
    outputs,             \* what the completed runs returned and left behind
    fidx,                \* position in contract.functions of the function under analysis
    pc,                  \* position in analyze() / _analyze_function_worklist
    tracked_vars,        \* self._tracked_vars
    tracked_keys,        \* insertion order of self._tracked_vars
    potential_issues,    \* self._potential_issues
    safemath_processed,  \* self._safemath_processed
    function_summaries,  \* self._function_summaries
    results,             \* the local results of analyze()
    worklist,            \* the deque of the main loop
    batch_nodes,         \* the nodes of the current batch not processed yet
    processed,           \* the set processed
    iteration,           \* the batch counter
    iteration_states,    \* node -> the pre-states recorded for it
    narrow_pass,         \* the pass of the narrowing phase, from 1
    narrow_idx,          \* position in nodes_in_order of the next node to replay
    trace,               \* the nodes visited and replayed so far, in order
    final_states,        \* function name -> _tracked_vars when its analysis ended
    issue_marks,         \* function name -> len(_potential_issues) before / after it
    returned,            \* the value analyze() returned; "pending" before, "raised" on an exception
    op_ir,               \* the instruction of the transfer-function specifications
    violation,           \* the value _check_bounds_violation returned
    deepcopy_keeps_keys, \* whether copy.deepcopy maps a variable handle to an equal key
    lattice_args,        \* the intervals an Interval method is called on (self, other, a third)
    lattice_result       \* the interval the Interval method returned

vars == << plan, outputs, fidx, pc, tracked_vars, tracked_keys, potential_issues,
           safemath_processed, function_summaries, results, worklist, batch_nodes,
           processed, iteration, iteration_states, narrow_pass, narrow_idx, trace,
           final_states, issue_marks, returned, op_ir, violation,
           deepcopy_keeps_keys, lattice_args, lattice_result >>

analyzer_vars == << tracked_vars, tracked_keys, potential_issues, safemath_processed >>
loop_vars == << worklist, batch_nodes, processed, iteration, iteration_states,
                narrow_pass, narrow_idx >>
unit_vars == << op_ir, violation, deepcopy_keeps_keys, lattice_args, lattice_result >>

\* no Interval method is under test
NoLatticeCall == lattice_args = << >> /\ lattice_result = Bottom

functions == Head(plan)
function == functions[fidx]
Current == AState(tracked_vars, tracked_keys, potential_issues, safemath_processed)

\* DeFiRangeAnalyzer._snapshot_state: copy.deepcopy(self._tracked_vars) copies
\* the keys as well.  The variable classes belong to the external IR: when a
\* copied handle equals the handle it was copied from the snapshot is the
\* mapping itself, otherwise no live variable is a key of the snapshot
snapshot_state(tv) == IF deepcopy_keeps_keys THEN tv ELSE << >>

\* writes the analyzer state st back to the state variables
Store(st) ==
    /\ tracked_vars' = st.tv
    /\ tracked_keys' = st.keys
    /\ potential_issues' = st.issues
    /\ safemath_processed' = st.sm

\* the analyzer fields and the locals of analyze() before any function is analysed
Idle ==
    /\ fidx = 1
    /\ potential_issues = << >>
    /\ safemath_processed = {}
    /\ function_summaries = << >>
    /\ results = << >>
    /\ worklist = << >>
    /\ batch_nodes = << >>
    /\ processed = {}
    /\ iteration = 0
    /\ iteration_states = << >>
    /\ narrow_pass = 1
    /\ narrow_idx = 1
    /\ trace = << >>
    /\ final_states = << >>
    /\ issue_marks = << >>
    /\ returned = "pending"

\* DeFiRangeAnalyzer.__init__ and the first lines of analyze()
FreshAnalyzer ==
    /\ Idle
    /\ pc = "function"
    /\ tracked_vars = << >>
    /\ tracked_keys = << >>

\* a main loop without the iteration cap: it runs while the queue is non-empty
LoopContinuesUncapped(wl, it) == wl # << >>

\* while worklist and iteration < self._max_iterations (line 1321)
LoopContinues(wl, it) == wl # << >> /\ it < max_iterations

\* the start of _analyze_function_worklist for the next function: the reset,
\* the seeding, the worklist of all nodes; an exception leaves analyze()
StartFunction ==
    /\ pc = "function"
    /\ fidx <= Len(functions)
    /\ IF function.malformed
       THEN /\ pc' = "raised"
            /\ returned' = "raised"
            /\ UNCHANGED << plan, outputs, fidx, analyzer_vars, function_summaries, results,
                            loop_vars, trace, final_states, issue_marks, unit_vars >>
       ELSE /\ \E order \in Orders(LocalAndTempLvalues(function)) :
                   Store(InitialState(Current, function, order))
            /\ worklist' = [i \in 1..Len(function.nodes) |-> i]
            /\ batch_nodes' = << >>
            /\ processed' = {}
            /\ iteration' = 0
            /\ iteration_states' = [i \in 1..Len(function.nodes) |-> << >>]
            /\ narrow_pass' = 1
            /\ narrow_idx' = 1
            /\ issue_marks' = (function.name :> << Len(potential_issues), Len(potential_issues) >>)
                              @@ issue_marks
            /\ pc' = "main"
            /\ UNCHANGED << plan, outputs, fidx, function_summaries, results, trace,
                            final_states, returned, unit_vars >>

\* batch_nodes = [worklist.popleft() for _ in range(batch_size)] (lines 1321-1324)
TakeBatch ==
    /\ pc = "main"
    /\ batch_nodes = << >>
    /\ LoopContinues(worklist, iteration)
    /\ LET batch_size == Min2(worklist_batch_size, Len(worklist))
       IN /\ batch_nodes' = SubSeq(worklist, 1, batch_size)
          /\ worklist' = SubSeq(worklist, batch_size + 1, Len(worklist))
    /\ UNCHANGED << plan, outputs, fidx, pc, analyzer_vars, function_summaries, results,
                    processed, iteration, iteration_states, narrow_pass, narrow_idx, trace,
                    final_states, issue_marks, returned, unit_vars >>

\* the body of `for node in batch_nodes` for one node (lines 1326-1362), and
\* iteration += 1 after the last node of the batch
ProcessNode ==
    /\ pc = "main"
    /\ batch_nodes # << >>
    /\ LET node == Head(batch_nodes)
           nd == function.nodes[node]
           old_state == snapshot_state(tracked_vars)
           history == Append(iteration_states[node], old_state)
       IN /\ iteration_states' = [iteration_states EXCEPT ![node] = history]
          /\ \E st \in {VisitNode(Current, nd, old_state, Len(history))} :
                /\ Store(st)
                /\ worklist' = IF state_changed(old_state, st.tv)
                               THEN AppendSons(worklist, nd.sons, processed)
                               ELSE worklist
          /\ processed' = processed \cup {node}
          /\ trace' = Append(trace, node)
    /\ batch_nodes' = Tail(batch_nodes)
    /\ iteration' = IF Tail(batch_nodes) = << >> THEN iteration + 1 ELSE iteration
    /\ UNCHANGED << plan, outputs, fidx, pc, function_summaries, results, narrow_pass,
                    narrow_idx, final_states, issue_marks, returned, unit_vars >>

\* the main loop ends: the queue is empty or the iteration cap is reached
EndMainLoop ==
    /\ pc = "main"
    /\ batch_nodes = << >>
    /\ ~LoopContinues(worklist, iteration)
    /\ pc' = "narrow"
    /\ UNCHANGED << plan, outputs, fidx, analyzer_vars, function_summaries, results,
                    loop_vars, trace, final_states, issue_marks, returned, unit_vars >>

\* one step of the narrowing loops (lines 1368-1393): the node at narrow_idx
\* of nodes_in_order is skipped or replayed
NarrowNode ==
    /\ pc = "narrow"
    /\ narrow_pass <= narrowing_iterations
    /\ narrow_idx <= Len(function.nodes)
    /\ LET node == narrow_idx
           nd == function.nodes[node]
       IN IF iteration_states[node] = << >>
          THEN UNCHANGED << analyzer_vars, trace >>
          ELSE /\ \E st \in {ReplayNode(Current, nd,
                                         iteration_states[node][Len(iteration_states[node])])} :
                     Store(st)
               /\ trace' = Append(trace, node)
    /\ IF narrow_idx = Len(function.nodes)
       THEN narrow_pass' = narrow_pass + 1 /\ narrow_idx' = 1
       ELSE narrow_pass' = narrow_pass /\ narrow_idx' = narrow_idx + 1
    /\ UNCHANGED << plan, outputs, fidx, pc, function_summaries, results, worklist,
                    batch_nodes, processed, iteration, iteration_states, final_states,
                    issue_marks, returned, unit_vars >>

\* self._tracked_vars.get(v, Interval())
GetOrBottom(tv, v) == IF v \in DOMAIN tv THEN tv[v] ELSE Bottom

\* self._function_summaries[function] = ... (lines 1396-1399)
Summarize ==
    /\ pc = "narrow"
    /\ narrow_pass > narrowing_iterations \/ function.nodes = << >>
    /\ function_summaries' =
          (function.name :>
              [params |-> [i \in 1..Len(function.parameters) |->
                              << function.parameters[i],
                                 GetOrBottom(tracked_vars, function.parameters[i]) >>],
               return |-> [i \in 1..Len(function.returns) |->
                              << function.returns[i],
                                 GetOrBottom(tracked_vars, function.returns[i]) >>]])
          @@ function_summaries
    /\ pc' = "collect"
    /\ UNCHANGED << plan, outputs, fidx, analyzer_vars, results, loop_vars, trace,
                    final_states, issue_marks, returned, unit_vars >>

\* the violation collection of analyze() for the function just analysed
\* (lines 1604-1613) and the step to the next function
Collect ==
    /\ pc = "collect"
    /\ results' = results \o CollectViolations(tracked_vars, tracked_keys, function.name)
    /\ final_states' = (function.name :> tracked_vars) @@ final_states
    /\ issue_marks' = [issue_marks EXCEPT ![function.name] =
                           << issue_marks[function.name][1], Len(potential_issues) >>]
    /\ fidx' = fidx + 1
    /\ pc' = "function"
    /\ UNCHANGED << plan, outputs, analyzer_vars, function_summaries, loop_vars, trace,
                    returned, unit_vars >>

\* the tail of analyze(): the potential issues are appended and results returned
ReturnResults ==
    /\ pc = "function"
    /\ fidx > Len(functions)
    /\ results' = results \o [i \in 1..Len(potential_issues) |-> IssueEntry(potential_issues[i])]
    /\ returned' = "results"
    /\ pc' = "done"
    /\ UNCHANGED << plan, outputs, fidx, analyzer_vars, function_summaries, loop_vars,
                    trace, final_states, issue_marks, unit_vars >>

\* what a run leaves behind
Output ==
    [program |-> functions, returned |-> returned, results |-> results, trace |-> trace,
     final_states |-> final_states, function_summaries |-> function_summaries,
     issue_marks |-> issue_marks, potential_issues |-> potential_issues]

\* the next program of the plan is analysed by a freshly constructed analyzer
NextRun ==
    /\ pc \in {"done", "raised"}
    /\ Len(plan) > 1
    /\ plan' = Tail(plan)
    /\ outputs' = Append(outputs, Output)
    /\ fidx' = 1
    /\ pc' = "function"
    /\ tracked_vars' = << >>
    /\ tracked_keys' = << >>
    /\ potential_issues' = << >>
    /\ safemath_processed' = {}
    /\ function_summaries' = << >>
    /\ results' = << >>
    /\ worklist' = << >>
    /\ batch_nodes' = << >>
    /\ processed' = {}
    /\ iteration' = 0
    /\ iteration_states' = << >>
    /\ narrow_pass' = 1
    /\ narrow_idx' = 1
    /\ trace' = << >>
    /\ final_states' = << >>
    /\ issue_marks' = << >>
    /\ returned' = "pending"
    /\ UNCHANGED unit_vars

Step ==
    \/ StartFunction
    \/ TakeBatch
    \/ ProcessNode
    \/ EndMainLoop
    \/ NarrowNode
    \/ Summarize
    \/ Collect
    \/ ReturnResults


(***************************************************************************)
(* The analysed programs.                                                  *)
(***************************************************************************)
\* largest constant increment of a loop body
MaxInc == 2
\* most nodes of a CFG whose successor relation is enumerated
MaxNodes == 2
\* most successors of a node in the successor relations that are enumerated
MaxSons == 1

\* balance = balance - amount on unsigned parameters: as one instruction
\* (balance -= amount) or through a temporary; alone or on a self-loop
SubFunction(viaTemp, selfLoop) ==
    Function("withdraw", << "balance", "amount" >>, << "balance" >>,
        << Node(IF viaTemp
                THEN << Binary("TMP_0", VarOp("balance"), "-", VarOp("amount")),
                        Assignment("balance", VarOp("TMP_0")) >>
                ELSE << Binary("balance", VarOp("balance"), "-", VarOp("amount")) >>,
                IF selfLoop THEN << 1 >> ELSE << >>) >>)

\* x = 0; while (cond) { x = x + inc; }  with nodes entry, header, body, exit
\* and the back edge body -> header
LoopFunction(condKind, inc, bound) ==
    Function("loop", << "n" >>, << "x" >>,
        << Node(<< Assignment("x", ConstOp(0)) >>, << 2 >>),
           CASE condKind = "const" ->
                   IfNode(Cond("x", "<", ConstOp(bound)),
                          << Binary("TMP_2", VarOp("x"), "<", ConstOp(bound)) >>, << 3, 4 >>)
             [] condKind = "var" ->
                   IfNode(Cond("x", "<", VarOp("n")),
                          << Binary("TMP_2", VarOp("x"), "<", VarOp("n")) >>, << 3, 4 >>)
             [] OTHER -> Node(<< >>, << 3, 4 >>),
           Node(<< Binary("x", VarOp("x"), "+", ConstOp(inc)) >>, << 2 >>),
           Node(<< >>, << >>) >>)

\* two temporaries that both end below zero
TwoTempsFunction ==
    Function("spread", << "balance", "amount" >>, << >>,
        << Node(<< Binary("TMP_0", VarOp("balance"), "-", VarOp("amount")),
                   Binary("TMP_1", VarOp("amount"), "-", VarOp("balance")) >>, << >>) >>)

\* total = <contract>.add(balance, amount) on the state variable total
LibraryAddFunction(contract) ==
    Function("deposit", << "balance", "amount" >>, << >>,
        << Node(<< SolidityCall("total", contract, "add", VarOp("balance"),
                                VarOp("amount")) >>, << >>) >>)

\* total = balance + amount on the state variable total
PlainAddFunction ==
    Function("accrue", << "balance", "amount" >>, << >>,
        << Node(<< Binary("total", VarOp("balance"), "+", VarOp("amount")) >>, << >>) >>)

\* do { x = total + 1; } while (...); total = 5;  the state variable total is
\* read by the loop node before the node that assigns it has run
StaleReadFunction ==
    Function("stale", << >>, << >>,
        << Node(<< Binary("x", VarOp("total"), "+", ConstOp(1)) >>, << 1 >>),
           Node(<< Assignment("total", ConstOp(5)) >>, << >>) >>)

SubFunctions == {SubFunction(t, l) : t \in BOOLEAN, l \in BOOLEAN}
LoopFunctions ==
    {LoopFunction(k, inc, b) : k \in {"const", "var", "none"}, inc \in 1..MaxInc, b \in {3, UMAX}}

\* contract.functions of the analysed contracts: one or two functions, any of
\* which may be malformed
Programs ==
    {<< f >> : f \in SubFunctions \cup LoopFunctions
                     \cup {TwoTempsFunction, PlainAddFunction, StaleReadFunction}}
    \cup {<< f, PlainAddFunction >> : f \in {LibraryAddFunction("SafeMath"),
                                             LibraryAddFunction("Token"),
                                             SubFunction(FALSE, FALSE), Malformed("broken")}}
    \cup {<< f, Malformed("broken") >> : f \in SubFunctions}
    \cup {<< Malformed("broken") >>}

InitPlan(plans) ==
    /\ plan \in plans
    /\ outputs = << >>
    /\ FreshAnalyzer
    /\ op_ir = Binary(NoVar, ConstOp(0), "", ConstOp(0))
    /\ violation = "none"
    /\ deepcopy_keeps_keys \in BOOLEAN
    /\ NoLatticeCall

(***************************************************************************)
(* Spec: analyze() on one contract.                                        *)
(***************************************************************************)
Init == InitPlan({<< p >> : p \in Programs})
Next == Step
Spec == Init /\ [][Next]_vars


(***************************************************************************)
(* SpecCheck: _check_bounds_violation on one tracked variable.             *)
(***************************************************************************)
\* the interval bounds the checked variable is given: around the limits of
\* the leverage constraint, of the machine range, and the 500 of the example
CheckBoundValues ==
    {-1, 0, 1, 2, LeverageMax, LeverageMax + 1, 500, UMAX, UMAX + 1}
CheckedVars == {"leverage_ratio", "balance", "delta"}

InitCheck ==
    /\ plan = << << >> >>
    /\ outputs = << >>
    /\ Idle
    /\ pc = "check"
    /\ \E v \in CheckedVars, lo \in CheckBoundValues, hi \in CheckBoundValues :
          /\ lo <= hi
          /\ tracked_vars = (v :> Interval(lo, hi))
          /\ tracked_keys = << v >>
    /\ op_ir = Binary(NoVar, ConstOp(0), "", ConstOp(0))
    /\ violation = "none"
    /\ deepcopy_keeps_keys \in BOOLEAN
    /\ NoLatticeCall

\* violation = self._check_bounds_violation(var)
CheckBounds ==
    /\ pc = "check"
    /\ violation' = check_bounds_violation(tracked_vars, tracked_keys[1])
    /\ pc' = "checked"
    /\ UNCHANGED << plan, outputs, fidx, analyzer_vars, function_summaries, results,
                    loop_vars, trace, final_states, issue_marks, returned, op_ir,
                    deepcopy_keeps_keys, lattice_args, lattice_result >>

NextCheck == CheckBounds
SpecCheck == InitCheck /\ [][NextCheck]_vars

\* the checked variable is leverage_ratio with the interval [lo, hi]
LeverageIs(lo, hi) ==
    /\ tracked_keys = << "leverage_ratio" >>
    /\ tracked_vars["leverage_ratio"] = Interval(lo, hi)

\* C1: once the constraint checker has examined a leverage_ratio variable
\* whose interval is [0, 500] against the constraint {min 1, max 100}, the
\* violation it reports is a maximum-bound violation
C1_MaxViolationReported ==
    (pc = "checked" /\ LeverageIs(0, 500)) => violation = "max_violation"

\* C1 (the case is reached): the checker has examined leverage_ratio = [0, 500]
\* and reported a violation of some kind
C1_Examined ==
    pc = "checked" /\ LeverageIs(0, 500) /\ violation # "none"


(***************************************************************************)
(* SpecOp: one Binary instruction processed on given operand intervals.    *)
(***************************************************************************)
\* the point values of the operands: 0, 1, small values of both signs and
\* the boundaries of the signed and unsigned ranges
PointValues == {0, 1, 2, 5, 7, -1, -7, SMIN, SMAX, SMAX + 1, UMAX}
OpIntervals ==
    {Interval(v, v) : v \in PointValues}
    \cup {Interval(-5, 5), Interval(0, UMAX), Interval(1, UMAX), Top}
Operators == {"+", "-", "*", "/", "%", "**"} \cup Comparisons \cup Connectives

InitOp ==
    /\ plan = << << >> >>
    /\ outputs = << >>
    /\ Idle
    /\ pc = "op"
    /\ \E left_interval \in OpIntervals, right_interval \in OpIntervals :
          tracked_vars = ("balance" :> left_interval) @@ ("amount" :> right_interval)
    /\ tracked_keys = << "balance", "amount" >>
    \* the right operand is the tracked amount or n, which is not tracked
    /\ \E op \in Operators, lvalue \in {"x", "delta"}, right \in {"amount", "n"} :
          op_ir = Binary(lvalue, VarOp("balance"), op, VarOp(right))
    /\ violation = "none"
    /\ deepcopy_keeps_keys \in BOOLEAN
    /\ NoLatticeCall

\* self._process_ir(ir) for the instruction op_ir
ApplyOp ==
    /\ pc = "op"
    /\ Store(process_ir(Current, op_ir))
    /\ pc' = "applied"
    /\ UNCHANGED << plan, outputs, fidx, function_summaries, results, loop_vars, trace,
                    final_states, issue_marks, returned, unit_vars >>

NextOp == ApplyOp
SpecOp == InitOp /\ [][NextOp]_vars

(***************************************************************************)
(* SpecIr: one instruction of any kind processed by _process_ir on a       *)
(* state that tracks balance and amount.                                   *)
(***************************************************************************)
InitIr ==
    /\ plan = << << >> >>
    /\ outputs = << >>
    /\ Idle
    /\ pc = "op"
    /\ \E left_interval \in OpIntervals \cup {Bottom},
          right_interval \in {Interval(2, 2), Interval(-5, 5), Interval(0, UMAX), Bottom} :
          tracked_vars = ("balance" :> left_interval) @@ ("amount" :> right_interval)
    /\ tracked_keys = << "balance", "amount" >>
    /\ op_ir \in
          {Binary(lvalue, VarOp("balance"), op, right) :
              lvalue \in {"x", "balance"}, op \in {"+", "-", "*", "/", "%"},
              right \in {VarOp("amount"), ConstOp(2)}}
          \cup {Assignment(lvalue, rvalue) :
                  lvalue \in {"x", "amount"},
                  rvalue \in {VarOp("balance"), ConstOp(7), VarOp("flag"), VarOp("n")}}
          \cup {TypeConversion(lvalue, VarOp(variable)) :
                  lvalue \in {"small", "tiny", "x", "delta", "flag"},
                  variable \in {"balance", "n"}}
          \cup {Member(lvalue, left, right) :
                  lvalue \in {"x", "amount"},
                  left \in {"msg", "block", "tx", "owner"},
                  right \in {"value", "timestamp", "number", "gasprice", "balance",
                             "sender"}}
          \cup {SolidityCall(lvalue, contract, op, VarOp("balance"), right) :
                  lvalue \in {"x", "balance"}, contract \in {"SafeMath", "Token"},
                  op \in {"add", "sub", "mul", "div", "mod", "keccak256"},
                  right \in {VarOp("amount"), ConstOp(2), VarOp("n")}}
          \cup {[Assignment("x", VarOp("balance")) EXCEPT !.kind = kind] :
                  kind \in {"Return", "Condition"}}
    /\ violation = "none"
    /\ deepcopy_keeps_keys \in BOOLEAN
    /\ NoLatticeCall

SpecIr == InitIr /\ [][NextOp]_vars

\* the operator an arithmetic-library function stands for
LibraryOperator(name) ==
    CASE name = "add" -> "+" [] name = "sub" -> "-" [] name = "mul" -> "*"
      [] name = "div" -> "/" [] name = "mod" -> "%"
\* op_ir is a call of add, sub, mul, div or mod whose two arguments are
\* tracked variables or constants
LibraryCallCase ==
    /\ pc = "op" /\ op_ir.kind = "SolidityCall"
    /\ op_ir.op \in {"add", "sub", "mul", "div", "mod"}
    /\ \A o \in {op_ir.left, op_ir.right} : o.const \/ o.var \in DOMAIN tracked_vars

\* C22: when a call of add, sub, mul, div or mod with two tracked or
\* constant arguments is processed, the interval written to the call's
\* target is the interval the binary-operation rule computes for the
\* operator +, -, *, / or % on the same two operand intervals
C22_LibraryCallMatchesOperator ==
    [][LibraryCallCase =>
          /\ op_ir.lvalue \in DOMAIN tracked_vars'
          /\ tracked_vars'[op_ir.lvalue] =
                apply_binary_operation(LibraryOperator(op_ir.op),
                                       OperandInterval(Current, op_ir.left),
                                       OperandInterval(Current, op_ir.right)).interval]_vars

\* C22 (the case is reached): SafeMath.add(balance, amount) has been
\* processed on two point intervals and x holds its result
C22_LibraryAddApplied ==
    /\ pc = "applied" /\ op_ir.kind = "SolidityCall" /\ op_ir.op = "add"
    /\ op_ir.lvalue = "x" /\ op_ir.right = VarOp("amount")
    /\ tracked_vars["balance"] = Interval(5, 5) /\ tracked_vars["amount"] = Interval(2, 2)
    /\ "x" \in DOMAIN tracked_vars

\* the canonical bounds of the integer type of target
CanonicalBounds(target) ==
    IF IsUintType(target) THEN Interval(0, 2^TypeBits(target) - 1)
    ELSE Interval(-(2^(TypeBits(target) - 1)), 2^(TypeBits(target) - 1) - 1)
\* the intersection of two intervals that are bottom, top or finite
Intersection(a, b) ==
    IF is_bottom(a) \/ is_bottom(b) THEN Bottom
    ELSE LET lo == Max2(a.min_val, b.min_val)
             hi == Min2(a.max_val, b.max_val)
         IN IF lo > hi THEN Bottom ELSE Interval(lo, hi)
\* op_ir converts the tracked balance to an unsigned or signed integer type
ConversionCase ==
    /\ pc = "op" /\ op_ir.kind = "TypeConversion"
    /\ op_ir.lvalue \in UintVars \cup IntVars
    /\ op_ir.left.var \in DOMAIN tracked_vars

\* C23: when a conversion of a tracked source to an unsigned or signed
\* integer type of width w is processed, the target's interval is the
\* intersection of the source interval with [0, 2^w - 1] or
\* [-2^(w-1), 2^(w-1) - 1]: bottom when the source is bottom or lies
\* entirely outside those bounds, and never with a lower bound above its
\* upper bound
C23_ConversionIntersectsTypeBounds ==
    [][ConversionCase =>
          /\ op_ir.lvalue \in DOMAIN tracked_vars'
          /\ tracked_vars'[op_ir.lvalue] =
                Intersection(tracked_vars[op_ir.left.var], CanonicalBounds(op_ir.lvalue))
          /\ LET target == tracked_vars'[op_ir.lvalue]
             IN is_bottom(target) \/ target.min_val <= target.max_val]_vars

\* C23 (the case is reached): a balance at the machine ceiling has been
\* converted to the narrow unsigned type and small holds the result
C23_CeilingConvertedToNarrow ==
    /\ pc = "applied" /\ op_ir.kind = "TypeConversion" /\ op_ir.lvalue = "small"
    /\ op_ir.left = VarOp("balance")
    /\ tracked_vars["balance"] = Interval(UMAX, UMAX)
    /\ "small" \in DOMAIN tracked_vars

\* the instructions _process_ir has a handler for, and the member accesses
\* _handle_member knows
RecognisedInstruction(ir) ==
    /\ ir.kind \in {"Binary", "Assignment", "TypeConversion", "Member", "SolidityCall"}
    /\ ir.kind = "Member" =>
          \/ << ir.left.var, ir.right.var >> \in
                {<< "msg", "value" >>, << "block", "timestamp" >>, << "block", "number" >>,
                 << "tx", "gasprice" >>}
          \/ ir.right.var = "balance"

\* C28: processing one instruction through _process_ir changes the interval
\* of at most one variable, the instruction's target: every other tracked
\* variable keeps its interval, no entry is removed, no entry but the
\* target's is added, and an instruction of an unrecognised kind or a member
\* access of an unrecognised field leaves the whole mapping unchanged
C28_OnlyTargetWritten ==
    [][pc = "op" =>
          /\ DOMAIN tracked_vars \subseteq DOMAIN tracked_vars'
          /\ DOMAIN tracked_vars' \subseteq DOMAIN tracked_vars \cup {op_ir.lvalue}
          /\ \A v \in DOMAIN tracked_vars \ {op_ir.lvalue} :
                tracked_vars'[v] = tracked_vars[v]
          /\ ~RecognisedInstruction(op_ir) => tracked_vars' = tracked_vars]_vars

\* C28 (the case is reached): x = balance * amount has been processed with
\* balance and amount tracked, and x holds a result next to them
C28_TargetStoredBesideOperands ==
    /\ pc = "applied" /\ op_ir.kind = "Binary" /\ op_ir.op = "*" /\ op_ir.lvalue = "x"
    /\ DOMAIN tracked_vars = {"balance", "amount", "x"}
    /\ tracked_vars["balance"] = Interval(5, 5) /\ tracked_vars["amount"] = Interval(2, 2)
    /\ tracked_vars["x"] = Interval(10, 10)

\* the operands and the result of the processed instruction
LeftOperand == tracked_vars["balance"]
RightOperand == OperandInterval(Current, op_ir.right)
OpResult == tracked_vars[op_ir.lvalue]
\* an issue of one of the given kinds has been recorded
Recorded(kinds) == \E i \in DOMAIN potential_issues : potential_issues[i].kind \in kinds
ContainsZero(i) == i.min_val <= 0 /\ 0 <= i.max_val
IsPoint(i) == i.min_val = i.max_val /\ IsFinite(i.min_val)

DivisionIssues ==
    {"div_zero_risk", "div_zero_error", "mod_zero_risk", "mod_zero_error", "div_zero_potential"}

\* C3: for '/' and '%', once an operation whose divisor interval contains 0
\* ([-5,5], [0,0], an unbounded divisor) has been applied, a division-by-zero
\* issue is recorded and the result is the full machine interval
\* [-2^(w-1), 2^w - 1], never a narrower one
C3_ZeroDivisorFullInterval ==
    (pc = "applied" /\ op_ir.op \in {"/", "%"} /\ ContainsZero(RightOperand))
        => (Recorded(DivisionIssues) /\ OpResult = Interval(SMIN, UMAX))

\* C3 (the case is reached): a division or a modulo by an interval that
\* contains 0 has been applied
C3_ZeroDivisorApplied ==
    /\ pc = "applied" /\ op_ir.op \in {"/", "%"}
    /\ RightOperand \in {Interval(-5, 5), Interval(0, 0), Top}

\* the operand 2^(w-1) of the overflowing addition
HalfRange == Interval(SMAX + 1, SMAX + 1)

\* C4: once [2^(w-1), 2^(w-1)] + [2^(w-1), 2^(w-1)] has been processed, an
\* overflow issue is recorded and the clamped result equals the machine
\* ceiling 2^w - 1: no bound of the result lies above the ceiling and the
\* lower bound does not exceed the upper bound
C4_OverflowClampedToCeiling ==
    (pc = "applied" /\ op_ir.op = "+" /\ LeftOperand = HalfRange /\ RightOperand = HalfRange)
        => /\ Recorded({"add_overflow"})
           /\ OpResult.max_val = UMAX
           /\ OpResult.min_val <= UMAX
           /\ OpResult.min_val <= OpResult.max_val

\* C4 (the case is reached): the addition has been processed and flagged
C4_OverflowingAdditionApplied ==
    /\ pc = "applied" /\ op_ir.op = "+"
    /\ LeftOperand = HalfRange /\ RightOperand = HalfRange
    /\ Recorded({"add_overflow"})

\* the value r as the machine stores it: modulo 2^w, in two's complement
\* when the target is signed
Wrap(r, signed) ==
    IF signed THEN ((r - SMIN) % (UMAX + 1)) + SMIN ELSE r % (UMAX + 1)
\* the machine's division truncates towards zero; the remainder has the
\* sign of the dividend
TruncDiv(v, w) ==
    IF (v < 0) = (w < 0) THEN Abs(v) \div Abs(w) ELSE -(Abs(v) \div Abs(w))
TruncRem(v, w) == v - w * TruncDiv(v, w)
RECURSIVE ModPow(_, _)
\* v ** e modulo 2^w, by squaring
ModPow(v, e) ==
    IF e = 0 THEN 1
    ELSE LET h == ModPow(v, e \div 2)
             sq == (h * h) % (UMAX + 1)
         IN IF e % 2 = 0 THEN sq ELSE (sq * (v % (UMAX + 1))) % (UMAX + 1)
\* the concrete machine result of v op w in a target of the given signedness
MachineResult(op, v, w, signed) ==
    Wrap(CASE op = "+" -> v + w
           [] op = "-" -> v - w
           [] op = "*" -> v * w
           [] op = "/" -> TruncDiv(v, w)
           [] op = "%" -> TruncRem(v, w)
           [] op = "**" -> ModPow(v, w),
         signed)

\* the processed instruction has point operands the machine operation is
\* defined on: a non-zero divisor, a non-negative exponent
PointCase ==
    /\ pc = "applied"
    /\ IsPoint(LeftOperand) /\ IsPoint(RightOperand)
    /\ op_ir.op \in {"+", "-", "*", "/", "%", "**"}
    /\ op_ir.op \in {"/", "%"} => RightOperand.min_val # 0
    /\ op_ir.op = "**" => RightOperand.min_val >= 0

\* C5: for every operator among +, -, *, /, %, ** and every pair of point
\* intervals [v,v], [w,w] (v, w among 0, 1, the width boundaries and negative
\* values), the result is exactly the point interval [r,r] of the concrete
\* machine result r of v op w
C5_PointIntervalsExact ==
    PointCase =>
        LET r == MachineResult(op_ir.op, LeftOperand.min_val, RightOperand.min_val,
                               IsIntType(op_ir.lvalue))
        IN OpResult = Interval(r, r)

\* C5 (the case is reached): 5 / 1 has been processed
C5_PointDivisionApplied ==
    /\ PointCase /\ op_ir.op = "/"
    /\ LeftOperand = Interval(5, 5) /\ RightOperand = Interval(1, 1)

\* C20: for every operator and every pair of non-bottom operand intervals,
\* top included, both bounds of the interval the binary-operation rule
\* returns lie within the machine range [SMIN, UMAX] and the lower bound
\* does not exceed the upper bound.
C20_ResultWithinMachineRange ==
    (pc = "applied" /\ ~is_bottom(LeftOperand) /\ ~is_bottom(RightOperand))
    => /\ OpResult.min_val # None /\ OpResult.max_val # None
       /\ SMIN <= OpResult.min_val /\ OpResult.min_val <= UMAX
       /\ SMIN <= OpResult.max_val /\ OpResult.max_val <= UMAX
       /\ OpResult.min_val <= OpResult.max_val

\* C20 witness: an addition with a top operand has been applied.
C20_TopOperandAdded ==
    /\ pc = "applied"
    /\ op_ir.op = "+"
    /\ is_top(LeftOperand)
    /\ RightOperand = Interval(1, 1)
    /\ op_ir.lvalue \in DOMAIN tracked_vars

\* C21: a comparison or a boolean connective always gives its target the
\* interval [0, 1], whatever the operand intervals are: top operands and
\* operands not tracked in the state (read as bottom) included.
C21_ComparisonYieldsBoolean ==
    (pc = "applied" /\ op_ir.op \in Comparisons \cup Connectives)
        => OpResult = Interval(0, 1)

\* C21 witness: a comparison of a top operand with [1, 1] has been applied.
C21_ComparisonApplied ==
    /\ pc = "applied"
    /\ op_ir.op \in Comparisons
    /\ op_ir.lvalue \in DOMAIN tracked_vars
    /\ is_top(LeftOperand) /\ RightOperand = Interval(1, 1)

\* the integers an interval with two finite bounds describes
Members(i) == {v \in SMIN..UMAX : i.min_val <= v /\ v <= i.max_val}
FiniteBounds(i) == IsFinite(i.min_val) /\ IsFinite(i.max_val)

\* C24: for '/' and '%' on finite operand intervals whose divisor interval
\* does not contain 0, the result is sound: for every x of the dividend
\* interval and y of the divisor interval the quotient truncated toward zero
\* lies in the '/' result and the remainder lies in the '%' result, whose
\* bounds stay within the largest divisor magnitude minus one.
C24_DivisionSound ==
    (/\ pc = "applied" /\ op_ir.op \in {"/", "%"}
     /\ FiniteBounds(LeftOperand) /\ FiniteBounds(RightOperand)
     /\ ~ContainsZero(RightOperand))
    => /\ \A x \in Members(LeftOperand), y \in Members(RightOperand) :
             LET r == IF op_ir.op = "/" THEN TruncDiv(x, y) ELSE TruncRem(x, y)
             IN OpResult.min_val <= r /\ r <= OpResult.max_val
       /\ op_ir.op = "%" =>
             LET magnitude == Max2(Abs(RightOperand.min_val), Abs(RightOperand.max_val))
             IN -(magnitude - 1) <= OpResult.min_val /\ OpResult.max_val <= magnitude - 1

\* C24 witness: -7 / 2 has been applied.
C24_NegativeDividendDivided ==
    /\ pc = "applied" /\ op_ir.op = "/"
    /\ LeftOperand = Interval(-7, -7) /\ RightOperand = Interval(2, 2)
    /\ op_ir.lvalue \in DOMAIN tracked_vars

\* the largest of the four corner products of two finite intervals
LargestProduct(a, b) ==
    SeqMax(<< a.min_val * b.min_val, a.min_val * b.max_val,
              a.max_val * b.min_val, a.max_val * b.max_val >>)

\* C26: for '+' and '*' on finite operand intervals with a target that is not
\* library-verified, an overflow issue is recorded if and only if the upper
\* bound of the unclamped result (for '*' the largest corner product) exceeds
\* the machine ceiling; for '-' an underflow issue is recorded if and only if
\* the unclamped lower bound is negative and the target type is unsigned.
C26_IssueIffUnclampedOutOfRange ==
    (/\ pc = "applied" /\ op_ir.op \in {"+", "*", "-"}
     /\ FiniteBounds(LeftOperand) /\ FiniteBounds(RightOperand)
     /\ op_ir.lvalue \notin safemath_processed)
    => CASE op_ir.op = "+" ->
              Recorded({"add_overflow"})
                  <=> LeftOperand.max_val + RightOperand.max_val > UMAX
         [] op_ir.op = "*" ->
              Recorded({"mul_overflow"}) <=> LargestProduct(LeftOperand, RightOperand) > UMAX
         [] op_ir.op = "-" ->
              Recorded({"sub_underflow"})
                  <=> (/\ LeftOperand.min_val - RightOperand.max_val < 0
                       /\ IsUintType(op_ir.lvalue))

\* C26 witness: a product whose largest corner is not the product of the
\* upper bounds has been applied.
C26_NegativeCornersMultiplied ==
    /\ pc = "applied" /\ op_ir.op = "*"
    /\ LeftOperand = Interval(-5, 5) /\ RightOperand = Interval(SMIN, SMIN)
    /\ op_ir.lvalue \in DOMAIN tracked_vars
    /\ op_ir.lvalue \notin safemath_processed

(***************************************************************************)
(* Properties of analyze() on one contract (Spec).                         *)
(***************************************************************************)
\* the result list holds a violation of the given kind for the variable of
\* the function
Reported(fname, variable, kind) ==
    \E i \in DOMAIN results :
        /\ results[i].entry = "violation" /\ results[i].function = fname
        /\ results[i].variable = variable /\ results[i].violation = kind

\* the main loop of the function under analysis is about to start
AtLoopEntry == pc = "main" /\ iteration = 0 /\ batch_nodes = << >> /\ processed = {}

\* C2: for the function withdraw computing balance = balance - amount, with
\* balance unsigned and both balance and amount starting at [0, 2^w - 1],
\* once the main loop and the narrowing passes have run the result list of
\* analyze() holds an underflow violation whose variable is balance
C2_UnderflowReported ==
    /\ (AtLoopEntry /\ function.name = "withdraw")
          => /\ tracked_vars["balance"] = Interval(0, UMAX)
             /\ tracked_vars["amount"] = Interval(0, UMAX)
    /\ "withdraw" \in DOMAIN final_states => Reported("withdraw", "balance", "underflow")

\* C2 (the case is reached): analyze() has returned its results for a
\* contract whose function withdraw left balance with a negative lower bound
C2_WithdrawAnalysed ==
    /\ returned = "results"
    /\ "withdraw" \in DOMAIN final_states
    /\ final_states["withdraw"]["balance"].min_val < 0
    /\ Len(trace) > narrowing_iterations

\* C6: for the function loop (entry x = 0, header, body x = x + inc with
\* inc > 0, back edge body -> header), when the driver has finished the
\* final interval of x is top or has the widened upper bound (+infinity or
\* the machine ceiling)
C6_LoopVariableWidened ==
    "loop" \in DOMAIN final_states =>
        LET x == final_states["loop"]["x"]
        IN is_top(x) \/ x.max_val \in {PosInf, UMAX}

\* C6 (the case is reached): the loop function has been analysed and its body,
\* node 3, was visited in the main loop and replayed by the narrowing
C6_LoopAnalysed ==
    /\ "loop" \in DOMAIN final_states
    /\ Cardinality({i \in DOMAIN trace : trace[i] = 3}) > narrowing_iterations

\* C8: when the analysis of one function raises (malformed CFG data), the
\* function is skipped with no violation reported for it, analyze() still
\* proceeds to every remaining function, and the violations collected for
\* the earlier functions are returned
C8_FailedFunctionSkipped ==
    pc \in {"done", "raised"} =>
        /\ returned = "results"
        /\ \A i \in DOMAIN functions :
              IF functions[i].malformed
              THEN \A j \in DOMAIN results : results[j].function # functions[i].name
              ELSE functions[i].name \in DOMAIN final_states

\* C8 (the case is reached): analyze() has ended on a contract whose second
\* function is malformed, after a violation was collected for the first
C8_MalformedSecondFunction ==
    /\ pc \in {"done", "raised"}
    /\ Len(functions) > 1 /\ functions[Len(functions)].malformed
    /\ Reported("withdraw", "balance", "underflow")

Queued(queue, node) == \E i \in DOMAIN queue : queue[i] = node
QueuedOnce(queue) == \A i, j \in DOMAIN queue : queue[i] = queue[j] => i = j

\* C19: in the main loop, whenever processing a node changes the abstract
\* state, every successor of the node is in the work queue afterwards and the
\* queue holds no node twice, successors processed earlier included.
C19_SuccessorsQueuedOnce ==
    [][(/\ pc = "main"
        /\ batch_nodes # << >>
        /\ trace' = Append(trace, Head(batch_nodes))
        /\ tracked_vars' # tracked_vars
        /\ state_changed(snapshot_state(tracked_vars), tracked_vars'))
       => LET sons == function.nodes[Head(batch_nodes)].sons
          IN /\ \A k \in DOMAIN sons : Queued(worklist', sons[k])
             /\ QueuedOnce(worklist')]_vars

\* C19 witness: the body of the loop was just processed and changed x, while
\* its successor, the loop header, had been processed earlier.
C19_BackEdgeTaken ==
    /\ pc = "main"
    /\ function.name = "loop"
    /\ Len(trace) > 2
    /\ trace[Len(trace)] = 3
    /\ 2 \in processed
    /\ iteration_states[3] # << >>
    /\ tracked_vars # iteration_states[3][Len(iteration_states[3])]

\* the state the condition and the instructions of node nd leave, before any
\* widening or narrowing
RawPostState(nd) ==
    process_irs(IF nd.is_if THEN process_condition(Current, nd.cond) ELSE Current, nd.irs).tv
\* a step of the main loop that processes the node at the head of the batch
ProcessesHead == pc = "main" /\ batch_nodes # << >> /\ trace' = Append(trace, Head(batch_nodes))

\* C25: in the main loop widening is applied only once the node has been
\* revisited at least widening_threshold times (processed once plus three
\* revisits); on every earlier processing the raw post-state is kept, and
\* when widening is applied every variable tracked in the pre-state and the
\* post-state gets pre.widen(post), which contains its pre-state interval.
C25_WidenedAfterThresholdRevisits ==
    [][ProcessesHead =>
          LET node == Head(batch_nodes)
              \* the earlier processings of the node: this one is revisit number `earlier`
              earlier == Len(iteration_states[node])
              raw == RawPostState(function.nodes[node])
          IN IF earlier < widening_threshold
             THEN tracked_vars' = raw
             ELSE \A v \in DOMAIN raw \cap DOMAIN tracked_vars :
                     /\ tracked_vars'[v] = widen(tracked_vars[v], raw[v])
                     /\ is_subset(tracked_vars[v], tracked_vars'[v])]_vars

\* C25 witness: the loop header has just been processed for the third time,
\* its second revisit, with the pre-state keyed by the live variables.
C25_HeaderProcessedThrice ==
    /\ pc = "main"
    /\ deepcopy_keeps_keys
    /\ function.name = "loop"
    /\ trace # << >> /\ trace[Len(trace)] = 2
    /\ Len(iteration_states[2]) = widening_threshold
    /\ "x" \in DOMAIN tracked_vars

\* the nodes the main loop processed, in function.nodes order
VisitedNodes == SelectSeq([i \in 1..Len(function.nodes) |-> i],
                          LAMBDA n : iteration_states[n] # << >>)
RECURSIVE Passes(_, _)
Passes(k, order) == IF k = 0 THEN << >> ELSE order \o Passes(k - 1, order)
\* the number of node processings of the main loop
RECURSIVE MainProcessings(_)
MainProcessings(n) == IF n = 0 THEN 0 ELSE Len(iteration_states[n]) + MainProcessings(n - 1)

\* C27: the narrowing phase makes exactly narrowing_iterations passes over
\* the visited nodes in function.nodes order (read off the trace of the
\* first function analysed), and the narrow step after a
\* replay only replaces infinite bounds: an interval with two finite bounds
\* is kept, an infinite bound is replaced by the bound of the node's last
\* recorded pre-state, and no non-bottom replayed interval becomes bottom.
C27_NarrowReplacesInfiniteBounds ==
    [][/\ (pc = "narrow" /\ pc' # "narrow" /\ fidx = 1) =>
             LET main == MainProcessings(Len(function.nodes))
             IN SubSeq(trace, main + 1, Len(trace)) = Passes(narrowing_iterations, VisitedNodes)
       /\ (pc = "narrow" /\ trace' # trace) =>
             LET raw == RawPostState(function.nodes[narrow_idx])
                 states == iteration_states[narrow_idx]
                 old_state == states[Len(states)]
             IN \A v \in DOMAIN raw :
                   /\ FiniteBounds(raw[v]) => tracked_vars'[v] = raw[v]
                   /\ ~is_bottom(raw[v]) => ~is_bottom(tracked_vars'[v])
                   /\ (v \in DOMAIN old_state /\ raw[v].min_val = NegInf)
                         => tracked_vars'[v].min_val = old_state[v].min_val
                   /\ (v \in DOMAIN old_state /\ raw[v].max_val = PosInf)
                         => tracked_vars'[v].max_val = old_state[v].max_val]_vars

\* C27 witness: the loop node of the stale-read function, whose last
\* recorded pre-state holds x as bottom, has been replayed to x = [6, 6] in
\* the narrowing phase.
C27_ReplayedAfterBottomPreState ==
    /\ pc = "narrow"
    /\ deepcopy_keeps_keys
    /\ function.name = "stale"
    /\ narrow_pass = 1 /\ narrow_idx = 2
    /\ trace = << 1, 2, 1, 1 >>
    /\ is_bottom(iteration_states[1][2]["x"])
    /\ tracked_vars["total"] = Interval(5, 5)

\* the number of the visit of its node that position k of the trace is
VisitNumber(k) == Cardinality({i \in 1..k : trace[i] = trace[k]})
\* the pre-state recorded at position k of the trace
PreStateAt(k) == iteration_states[trace[k]][VisitNumber(k)]
\* the state the next node sees after position k: its recorded pre-state, or
\* the current state after the last processing
StateAfter(k) == IF k < Len(trace) THEN PreStateAt(k + 1) ELSE tracked_vars
\* the condition refinement and the instructions of node nd applied to pre
RefinedPostState(pre, nd) ==
    LET st == AState(pre, << >>, << >>, {})
    IN process_irs(IF nd.is_if THEN process_condition(st, nd.cond) ELSE st, nd.irs).tv

Increment == Binary("x", VarOp("x"), "+", ConstOp(1))

\* a function of Len(sons) nodes, node i with the successors sons[i]
CfgFunction(name, sons) ==
    Function(name, << >>, << >>, [i \in DOMAIN sons |-> Node(<< Increment >>, sons[i])])

\* the successor lists of a node of an n-node CFG: any sequence of at most
\* MaxSons nodes, so self-loops, back edges and repeated edges
SonSeqs(n) == UNION {[1..k -> 1..n] : k \in 0..MaxSons}
CfgFunctions ==
    {CfgFunction("cfg", sons) : sons \in UNION {[1..n -> SonSeqs(n)] : n \in 1..MaxNodes}}

\* one node more than a batch holds, every node with two edges to the last:
\* the queue never drains while the state keeps changing
FanNodes == worklist_batch_size + 1
FanFunction == CfgFunction("fan", [i \in 1..FanNodes |-> << FanNodes, FanNodes >>])

\* a straight line of one node more than max_iterations batches can take
LongNodes == max_iterations * worklist_batch_size + 1
LongFunction ==
    CfgFunction("long", [i \in 1..LongNodes |-> IF i < LongNodes THEN << i + 1 >> ELSE << >>])

CfgPrograms == {<< f >> : f \in CfgFunctions \cup {FanFunction, LongFunction}}

InitCfg == InitPlan({<< p >> : p \in CfgPrograms})
SpecCfg == InitCfg /\ [][Next]_vars
\* analyze() is one sequential computation: it takes its next step whenever
\* it has one
FairSpecCfg == SpecCfg /\ WF_vars(Next)

\* the nodes the main loop can take before the iteration cap stops it
MainLoopCapacity == worklist_batch_size * max_iterations
\* how often node n was processed or replayed
Occurrences(n) == Cardinality({i \in DOMAIN trace : trace[i] = n})

\* C29: once the main loop has ended, every node at a position up to
\* batch_size x max_iterations of function.nodes has been processed at least
\* once and is replayed in each narrowing pass; a node at a later position
\* was never dequeued, has no recorded pre-state, is skipped by narrowing
\* and its instructions were never applied.
C29_NodesWithinCapacityProcessed ==
    pc \in {"narrow", "collect"} =>
        \A n \in DOMAIN function.nodes :
            IF n <= MainLoopCapacity
            THEN /\ n \in processed
                 /\ iteration_states[n] # << >>
                 /\ pc = "collect" =>
                        Occurrences(n) = Len(iteration_states[n]) + narrowing_iterations
            ELSE /\ n \notin processed
                 /\ iteration_states[n] = << >>
                 /\ Occurrences(n) = 0

\* C29 witness: the straight line of one node more than the main loop can
\* take has been analysed: node 100 was processed, node 101 was not.
C29_LongFunctionAnalysed ==
    /\ pc = "collect"
    /\ function.name = "long"
    /\ Len(function.nodes) = MainLoopCapacity + 1
    /\ MainLoopCapacity \in processed
    /\ iteration_states[MainLoopCapacity + 1] = << >>

\* C7: on every finite CFG the driver terminates: the main loop runs at most
\* max_iterations batches of at most worklist_batch_size nodes each, the
\* narrowing phase runs its narrowing_iterations passes and no more, and
\* the summary of every function is eventually recorded
C7_DriverTerminates ==
    /\ [](/\ iteration <= max_iterations
          /\ Len(batch_nodes) <= worklist_batch_size
          /\ batch_nodes # << >> => iteration < max_iterations
          /\ narrow_pass <= narrowing_iterations + 1)
    /\ <>(/\ pc = "done"
          /\ \A i \in DOMAIN functions : functions[i].name \in DOMAIN function_summaries)

\* C7 (the case is reached): a function whose main loop was stopped by the
\* cap with nodes still queued has been narrowed and summarised
C7_StoppedByCap ==
    /\ pc = "done"
    /\ iteration = max_iterations /\ worklist # << >>
    /\ narrow_pass = narrowing_iterations + 1
    /\ function_summaries # << >>


(***************************************************************************)
(* SpecRuns: two runs of analyze(), each on a fresh analyzer.              *)
(***************************************************************************)
\* the same contract twice; or a function alone, then after another function
RunPlans ==
    {<< p, p >> : p \in Programs}
    \cup {<< << PlainAddFunction >>, << f, PlainAddFunction >> >> :
             f \in {LibraryAddFunction("SafeMath"), LibraryAddFunction("Token"),
                    SubFunction(FALSE, FALSE)}}

InitRuns == InitPlan(RunPlans)
NextRuns == Step \/ NextRun
SpecRuns == InitRuns /\ [][NextRuns]_vars

\* the second run has ended
SecondRunEnded == outputs # << >> /\ pc \in {"done", "raised"}

\* C9: two runs on the same input, each on a fresh analyzer, process the
\* nodes in the same order and produce identical final abstract states,
\* identical violation lists and identical function summaries
C9_RunsIdentical ==
    (SecondRunEnded /\ outputs[1].program = functions) =>
        /\ trace = outputs[1].trace
        /\ final_states = outputs[1].final_states
        /\ results = outputs[1].results
        /\ function_summaries = outputs[1].function_summaries

\* C9 (the case is reached): the same contract has been analysed twice and
\* both runs reported violations
C9_SameInputTwice ==
    /\ SecondRunEnded /\ outputs[1].program = functions
    /\ results # << >> /\ outputs[1].results # << >>

\* the issues recorded while the function was analysed, in a run's output
IssuesDuring(out, fname) ==
    SubSeq(out.potential_issues, out.issue_marks[fname][1] + 1, out.issue_marks[fname][2])

\* the first run analysed g alone, the second analysed f and then g
AloneThenAfter ==
    /\ SecondRunEnded /\ pc = "done"
    /\ Len(outputs[1].program) = 1 /\ Len(functions) = 2
    /\ functions[2] = outputs[1].program[1]

\* C10: no mutable analyzer state carries over from one function to the
\* next: the final abstract state of g and the issues recorded while
\* analysing g are the same whether or not f was analysed before it by
\* the same analyzer
C10_NoCarryOver ==
    AloneThenAfter =>
        LET g == functions[2].name
        IN /\ final_states[g] = outputs[1].final_states[g]
           /\ IssuesDuring(Output, g) = IssuesDuring(outputs[1], g)

\* C10 (the case is reached): g was analysed alone and after a function that
\* called a math library
C10_AfterLibraryCall ==
    /\ AloneThenAfter
    /\ functions[1] = LibraryAddFunction("SafeMath")
    /\ "total" \in safemath_processed


(***************************************************************************)
(* SpecLattice: one call of an Interval method on given intervals.         *)
(***************************************************************************)
\* largest absolute value of a finite bound of the intervals under test
LatBound == 1

LatValues == -LatBound..LatBound
\* the intervals the analyzer builds: bottom, top, two finite bounds, one
\* side unbounded written with None (the condition refiner) or with an
\* infinity (widening), and both
LatticeIntervals ==
    {Bottom, Top}
    \cup {Interval(p[1], p[2]) : p \in {q \in LatValues \X LatValues : q[1] <= q[2]}}
    \cup {Interval(None, hi) : hi \in LatValues}
    \cup {Interval(lo, None) : lo \in LatValues}
    \cup {Interval(NegInf, hi) : hi \in LatValues}
    \cup {Interval(lo, PosInf) : lo \in LatValues}
    \cup {Interval(None, PosInf), Interval(NegInf, None)}

InitLattice ==
    /\ plan = << << >> >>
    /\ outputs = << >>
    /\ Idle
    /\ pc = "lattice"
    /\ tracked_vars = << >>
    /\ tracked_keys = << >>
    /\ op_ir = Binary(NoVar, ConstOp(0), "", ConstOp(0))
    /\ violation = "none"
    /\ deepcopy_keeps_keys = FALSE
    /\ lattice_args \in {<< a, b, c >> : a \in LatticeIntervals, b \in LatticeIntervals,
                                        c \in LatticeIntervals}
    /\ lattice_result = Bottom

\* the call returns: its value is kept and pc names the method called
Return(method, value) ==
    /\ pc = "lattice"
    /\ lattice_result' = value
    /\ pc' = method
    /\ UNCHANGED << plan, outputs, fidx, analyzer_vars, function_summaries, results,
                    loop_vars, trace, final_states, issue_marks, returned, op_ir, violation,
                    deepcopy_keeps_keys, lattice_args >>

\* self.join(other), self.meet(other), self.widen(other), self.narrow(other),
\* self.is_subset(other) with self = lattice_args[1], other = lattice_args[2]
Join == Return("join", join(lattice_args[1], lattice_args[2]))
Meet == Return("meet", meet(lattice_args[1], lattice_args[2]))
Widen == Return("widen", widen(lattice_args[1], lattice_args[2]))
Narrow == Return("narrow", narrow(lattice_args[1], lattice_args[2]))
IsSubset == Return("is_subset", is_subset(lattice_args[1], lattice_args[2]))

NextLattice == Join \/ Meet \/ Widen \/ Narrow \/ IsSubset
SpecLattice == InitLattice /\ [][NextLattice]_vars

\* the receiver, the argument and the third interval of the call
Self == lattice_args[1]
Other == lattice_args[2]
Third == lattice_args[3]

\* the interval is bottom, top, or has two finite bounds with min <= max
WellFormed(i) ==
    \/ is_bottom(i)
    \/ is_top(i)
    \/ IsFinite(i.min_val) /\ IsFinite(i.max_val) /\ i.min_val <= i.max_val

\* C11: every interval returned by join, meet, widen or narrow on intervals
\* that are bottom, top or finite with min <= max is itself bottom, top or
\* finite with min <= max (crossing bounds give bottom)
C11_ResultsWellFormed ==
    (pc \in {"join", "meet", "widen", "narrow"} /\ WellFormed(Self) /\ WellFormed(Other))
        => WellFormed(lattice_result)

\* the interval is bottom, or its lower bound is finite or -infinity, its
\* upper bound finite or +infinity, and the lower does not exceed the upper
Ordered(i) ==
    \/ is_bottom(i)
    \/ /\ IsFinite(i.min_val) \/ i.min_val = NegInf
       /\ IsFinite(i.max_val) \/ i.max_val = PosInf
       /\ i.min_val <= i.max_val

\* C11 (as the code has it): on intervals that are bottom, top or finite
\* with min <= max, join, meet and narrow return an interval that is bottom,
\* top or finite with min <= max (meet returns bottom when the bounds would
\* cross); widen returns bottom or an interval with min <= max of which a
\* bound that grew is infinite
C11_ResultsOrdered ==
    (pc \in {"join", "meet", "widen", "narrow"} /\ WellFormed(Self) /\ WellFormed(Other))
        => /\ Ordered(lattice_result)
           /\ pc # "widen" => WellFormed(lattice_result)

\* C11 (the case is reached): a finite interval has been widened with a
\* finite interval that reaches above it
C11_WidenedUpwards ==
    /\ pc = "widen"
    /\ Self = Interval(0, 0) /\ Other = Interval(0, 1)
    /\ lattice_result = Interval(0, PosInf)

\* the values of a non-bottom interval: from LoOf to HiOf, a None or an
\* infinite bound leaving the side open; two intervals share no value
Disjoint(a, b) == Max2(LoOf(a), LoOf(b)) > Min2(HiOf(a), HiOf(b))

\* C12: a.meet(b) is the intersection: it is a subset of a and of b under
\* is_subset, where one argument is unbounded it keeps the bound of the
\* other, and it is bottom whenever the intersection is empty
C12_MeetIsIntersection ==
    pc = "meet" =>
        /\ is_subset(lattice_result, Self)
        /\ is_subset(lattice_result, Other)
        /\ IF is_bottom(Self) \/ is_bottom(Other) \/ Disjoint(Self, Other)
           THEN is_bottom(lattice_result)
           ELSE /\ ~is_bottom(lattice_result)
                /\ LoOf(lattice_result) = Max2(LoOf(Self), LoOf(Other))
                /\ HiOf(lattice_result) = Min2(HiOf(Self), HiOf(Other))

\* C12 (the case is reached): a finite interval has been met with an
\* interval that is unbounded below, written with None
C12_MetWithHalfLine ==
    /\ pc = "meet"
    /\ Self = Interval(-1, 1) /\ Other = Interval(None, 0)

\* C13: a.join(b) contains both arguments under is_subset and is the
\* smallest such interval; bottom joined with a is a; top joined with a
\* non-bottom interval is top; the join of two non-bottom intervals is not
\* bottom
C13_JoinIsLeastUpperBound ==
    pc = "join" =>
        /\ is_subset(Self, lattice_result)
        /\ is_subset(Other, lattice_result)
        /\ is_bottom(Self) => IntervalEq(lattice_result, Other)
        /\ is_bottom(Other) => IntervalEq(lattice_result, Self)
        /\ (~is_bottom(Self) /\ ~is_bottom(Other)) =>
              /\ ~is_bottom(lattice_result)
              /\ LoOf(lattice_result) = Min2(LoOf(Self), LoOf(Other))
              /\ HiOf(lattice_result) = Max2(HiOf(Self), HiOf(Other))
              /\ (is_top(Self) \/ is_top(Other)) => is_top(lattice_result)

\* C13 (the case is reached): two half-lines written with None, one open
\* below and one open above, have been joined
C13_JoinedHalfLines ==
    /\ pc = "join"
    /\ Self = Interval(None, 0) /\ Other = Interval(0, None)

\* C14: join and meet are associative under Interval equality: for all a,
\* b, c (bottom, top, finite, one side unbounded) a.join(b).join(c) equals
\* a.join(b.join(c)) and a.meet(b).meet(c) equals a.meet(b.meet(c))
C14_Associative ==
    /\ pc = "join" =>
          IntervalEq(join(lattice_result, Third), join(Self, join(Other, Third)))
    /\ pc = "meet" =>
          IntervalEq(meet(lattice_result, Third), meet(Self, meet(Other, Third)))

\* C14 (the case is reached): a.join(b) has been computed for two
\* half-lines and a finite third interval
C14_JoinedBeforeThird ==
    /\ pc = "join"
    /\ Self = Interval(None, 0) /\ Other = Interval(0, None) /\ Third = Interval(0, 1)

\* C15: join and meet are commutative under Interval equality: a.join(b)
\* equals b.join(a) and a.meet(b) equals b.meet(a)
C15_Commutative ==
    /\ pc = "join" => IntervalEq(lattice_result, join(Other, Self))
    /\ pc = "meet" => IntervalEq(lattice_result, meet(Other, Self))

\* C15 (the case is reached): a finite interval has been met with a
\* different interval that is unbounded below
C15_MetUnequalArguments ==
    /\ pc = "meet"
    /\ Self = Interval(0, 1) /\ Other = Interval(None, 1)
    /\ lattice_result = Interval(None, 1)

\* C16: the identity laws: a.meet(a) equals a, bottom.join(a) equals a,
\* top.meet(a) equals a; and the extremes of the order: bottom is a subset
\* of every a and every a is a subset of top
C16_IdentitiesAndExtremes ==
    /\ (pc = "meet" /\ Self = Other) => IntervalEq(lattice_result, Self)
    /\ (pc = "join" /\ is_bottom(Self)) => IntervalEq(lattice_result, Other)
    /\ (pc = "meet" /\ is_top(Self)) => IntervalEq(lattice_result, Other)
    /\ (pc = "is_subset" /\ is_bottom(Self)) => lattice_result = TRUE
    /\ (pc = "is_subset" /\ is_top(Other)) => lattice_result = TRUE

\* C16 (the case is reached): top has been compared with top
C16_TopComparedWithTop ==
    pc = "is_subset" /\ is_top(Self) /\ is_top(Other) /\ lattice_result = TRUE

\* C17: widening never loses values of its left argument: a is a subset of
\* a.widen(b); the lower bound of a.widen(b) is -infinity exactly when b's
\* lower bound is below a's and otherwise a's lower bound, and
\* symmetrically for the upper bound (an absent bound is unbounded)
C17_WidenKeepsLeft ==
    pc = "widen" =>
        /\ is_subset(Self, lattice_result)
        /\ (~is_bottom(Self) /\ ~is_bottom(Other)) =>
              /\ lattice_result.min_val =
                    IF LoOf(Other) < LoOf(Self) THEN NegInf ELSE Self.min_val
              /\ lattice_result.max_val =
                    IF HiOf(Other) > HiOf(Self) THEN PosInf ELSE Self.max_val

\* C17 (the case is reached): a finite interval has been widened with an
\* interval that is unbounded below, written with None
C17_WidenedWithHalfLine ==
    /\ pc = "widen"
    /\ Self = Interval(0, 1) /\ Other = Interval(None, 1)


(***************************************************************************)
(* SpecRefine: _process_condition on a node whose condition is `x OP c`.   *)
(***************************************************************************)
\* largest finite bound of the refined variable; the constants compared
\* with lie below it
RefineBound == 3

RefineValues == -1..RefineBound
RefineConstants == 0..(RefineBound - 1)
\* the interval of x before the refinement
RefineIntervals ==
    {Bottom, Top, Interval(0, UMAX)}
    \cup {Interval(p[1], p[2]) : p \in {q \in RefineValues \X RefineValues : q[1] <= q[2]}}

InitRefine ==
    /\ plan = << << >> >>
    /\ outputs = << >>
    /\ Idle
    /\ pc = "refine"
    /\ \E current \in RefineIntervals :
          /\ tracked_vars = ("x" :> current)
          /\ lattice_args = << current >>
    /\ tracked_keys = << "x" >>
    /\ \E op \in Comparisons, c \in RefineConstants :
          op_ir = Binary("TMP_2", VarOp("x"), op, ConstOp(c))
    /\ violation = "none"
    /\ deepcopy_keeps_keys = FALSE
    /\ lattice_result = Bottom

\* self._process_condition(node) for a node whose expression is op_ir
RefineCondition ==
    /\ pc = "refine"
    /\ Store(process_condition(Current, Cond(op_ir.left.var, op_ir.op, op_ir.right)))
    /\ pc' = "refined"
    /\ UNCHANGED << plan, outputs, fidx, function_summaries, results, loop_vars, trace,
                    final_states, issue_marks, returned, unit_vars >>

NextRefine == RefineCondition
SpecRefine == InitRefine /\ [][NextRefine]_vars

\* the interval of x before the refinement and the constant compared with
Previous == lattice_args[1]
Threshold == op_ir.right.value
\* the values the condition x OP c admits
Implied(op, c) ==
    CASE op = "<" -> Interval(NegInf, c - 1)
      [] op = "<=" -> Interval(NegInf, c)
      [] op = ">" -> Interval(c + 1, PosInf)
      [] op = ">=" -> Interval(c, PosInf)
      [] op = "==" -> Interval(c, c)

\* C18: for a condition x OP c (OP among <, <=, >, >=, ==; x tracked), after
\* the refinement the interval of x is the intersection of its previous
\* interval with the range OP implies: the bound OP does not constrain is
\* unchanged, the new interval is a subset of the previous one, and it is
\* bottom when the condition cannot hold
C18_RefinedToIntersection ==
    (pc = "refined" /\ op_ir.op \in {"<", "<=", ">", ">=", "=="}) =>
        LET refined == tracked_vars["x"]
            implied == Implied(op_ir.op, Threshold)
        IN /\ is_subset(refined, Previous)
           /\ IF is_bottom(Previous) \/ Disjoint(Previous, implied)
              THEN is_bottom(refined)
              ELSE /\ ~is_bottom(refined)
                   /\ LoOf(refined) = Max2(LoOf(Previous), LoOf(implied))
                   /\ HiOf(refined) = Min2(HiOf(Previous), HiOf(implied))

\* C18 (the case is reached): x = [0, 3] has been refined by x < 2
C18_RefinedBelow ==
    /\ pc = "refined"
    /\ Previous = Interval(0, 3) /\ op_ir.op = "<" /\ Threshold = 2

====
